---- MODULE Spec2Model ----
(***************************************************************************)
(* Caller memory subsystem of siphon: MemoryService (load / save), the     *)
(* fact merge policy, and the storage backends behind MemoryStore.         *)
(*                                                                         *)
(* Eleven specifications share the module:                                 *)
(*   MergeSpec    - MemoryService._merge_facts as a pure function          *)
(*   StoreSpec    - one MemoryStore backend driven directly (save/get/...) *)
(*   BackendsSpec - every MemoryStore backend driven by the same calls     *)
(*   ExtractSpec  - LLMFactExtractor.extract, one model call per step      *)
(*   CallSpec     - one MemoryService over successive calls: load, prompt  *)
(*                  enrichment (MemoryEnricher), save                      *)
(*   CacheSpec    - cache/backend.py: the Redis client, the cache          *)
(*                  operations and _with_stampede_protection               *)
(*   Spec         - MemoryService instances saving and loading through a   *)
(*                  backend whose I/O may fail                             *)
(*   FormatSpec   - MemoryEnricher.format on records of every shape        *)
(*   FlowSpec     - MemoryService.save, one await at a time                *)
(*   ExitSpec     - AgentSetup.on_exit (agent/core/voice_agent.py)         *)
(*   TrunkSpec    - Trunk (telephony/outbound/trunk.py) and its id cache   *)
(***************************************************************************)
EXTENDS Integers, Sequences, FiniteSets, TLC

VARIABLES
    mg_pc,        \* MergeSpec: "input" | "merged" | "remerged" | "off"
    mg_existing,  \* MergeSpec: the `existing` argument of _merge_facts
    mg_new,       \* MergeSpec: the `new` argument of _merge_facts
    mg_merged,    \* MergeSpec: _merge_facts(existing, new)
    mg_remerged,  \* MergeSpec: _merge_facts(merged, [])
    backend,      \* the MemoryStore variant create_memory_store selected
    store,        \* what the backend holds: backend key -> stored content
    sp_op,        \* StoreSpec: the last MemoryStore call and its outcome
    sp_saved,     \* StoreSpec: phone -> the record of the last completed save
    bk,           \* BackendsSpec: what each backend holds, and the last call
    ex,           \* ExtractSpec: the extract call in progress
    cl,           \* CallSpec: one MemoryService through successive calls
    ca,           \* CacheSpec: the module state of cache/backend.py and its callers
    fl,           \* FlowSpec: one MemoryService.save, step by step
    ag,           \* ExitSpec: one AgentSetup from the end of the call through on_exit
    tk,           \* TrunkSpec: the outbound trunks of LiveKit, the cache, the last call
    fm,           \* FormatSpec: a record and the context MemoryEnricher.format renders
    now,          \* the wall clock read by datetime.utcnow()
    events,       \* how many calls and clock ticks have happened so far
    svc,          \* the MemoryService instances: fields and position in save
    ret           \* the call that returned last, and what it returned

mg_vars == <<mg_pc, mg_existing, mg_new, mg_merged, mg_remerged>>
st_vars == <<backend, store>>
sp_vars == <<sp_op, sp_saved>>
bk_vars == <<bk>>
ex_vars == <<ex>>
cl_vars == <<cl>>
ca_vars == <<ca>>
fl_vars == <<fl>>
ag_vars == <<ag>>
tk_vars == <<tk>>
fm_vars == <<fm>>
sv_vars == <<now, events, svc, ret>>

vars ==
    <<mg_vars, st_vars, sp_vars, bk_vars, ex_vars, cl_vars, ca_vars, fl_vars, ag_vars,
      tk_vars, fm_vars, sv_vars>>

\* Python values are records tagged with their type in `cls`.
None == [cls |-> "NoneType"]
Raise(name) == [cls |-> "Exception", name |-> name]
IsRaise(x) == x.cls = "Exception"

True == [cls |-> "bool", value |-> TRUE]
False == [cls |-> "bool", value |-> FALSE]

\* an optional string or list: Str(chars), List(items), or None
Str(chars) == [cls |-> "str", chars |-> chars]
List(items) == [cls |-> "list", items |-> items]

Min(a, b) == IF a < b THEN a ELSE b

(***************************************************************************)
(* models.py: Fact.  A datetime is [day, frac]: whole days since the       *)
(* epoch of the model, and frac = 1 when the value has a non-zero part     *)
(* below one millisecond (datetime.utcnow() has microsecond resolution).   *)
(***************************************************************************)
ImportanceMin == 1
ImportanceMax == 10

Datetime(d, f) == [ty |-> "datetime", day |-> d, frac |-> f]

Fact(k, v, i, at, src) ==
    [key |-> k, value |-> v, importance |-> i, extracted_at |-> at, source |-> src]

\* models.py: CallerMemory
CallerMemory(phone, first, last, count, facts) ==
    [cls |-> "CallerMemory", phone_number |-> phone, first_call_date |-> first,
     last_call_date |-> last, call_count |-> count, facts |-> facts]

(***************************************************************************)
(* service.py: _merge_facts.  fact_map is a dict: insertion ordered, an    *)
(* assignment to a key already present keeps the key's position.           *)
(***************************************************************************)
MaxFacts == 15

dict_put_append(fact_map, fact) == Append(fact_map, fact)

dict_put(fact_map, fact) ==
    IF \E i \in 1..Len(fact_map) : fact_map[i].key = fact.key
    THEN [i \in 1..Len(fact_map) |->
            IF fact_map[i].key = fact.key THEN fact ELSE fact_map[i]]
    ELSE Append(fact_map, fact)

RECURSIVE dict_fill(_, _)
dict_fill(fact_map, facts) ==
    IF facts = <<>> THEN fact_map
    ELSE dict_fill(dict_put(fact_map, Head(facts)), Tail(facts))

\* sorted(..., key=importance) without reverse=True
sorted_ascending(facts) ==
    LET n == Len(facts)
        rank(i) == 1 + Cardinality({j \in 1..n :
                        \/ facts[j].importance < facts[i].importance
                        \/ facts[j].importance = facts[i].importance /\ j < i})
    IN  [r \in 1..n |-> facts[CHOOSE i \in 1..n : rank(i) = r]]

\* sorted(..., key=importance)[::-1]: descending, but ties come out reversed
sorted_reversed(facts) ==
    LET asc == sorted_ascending(facts)
        n == Len(asc)
    IN  [r \in 1..n |-> asc[n + 1 - r]]

\* sorted(values, key=lambda f: f.importance, reverse=True): a stable sort,
\* facts of equal importance keep the order they had in the dict
sorted_by_importance(facts) ==
    LET n == Len(facts)
        rank(i) == 1 + Cardinality({j \in 1..n :
                        \/ facts[j].importance > facts[i].importance
                        \/ facts[j].importance = facts[i].importance /\ j < i})
    IN  [r \in 1..n |-> facts[CHOOSE i \in 1..n : rank(i) = r]]

\* merged[-15:]
truncate_tail(merged) ==
    SubSeq(merged, Len(merged) - Min(Len(merged), MaxFacts) + 1, Len(merged))

\* no slice at all
truncate_none(merged) == merged

\* merged[:15]
truncate(merged) == SubSeq(merged, 1, Min(Len(merged), MaxFacts))

\* the two loops swapped: new first, then existing overrides
merge_facts_existing_wins(existing, new) ==
    truncate(sorted_by_importance(dict_fill(dict_fill(<<>>, new), existing)))

merge_facts(existing, new) ==
    truncate(sorted_by_importance(dict_fill(dict_fill(<<>>, existing), new)))

(***************************************************************************)
(* Storage backends (memory/storage/*.py).                                 *)
(*                                                                         *)
(* Strings that the code takes apart (phone numbers) are sequences of      *)
(* characters.  Serialized forms keep their own tag: a JSON text is        *)
(* cls = "json" and carries dates as strings (ty = "str"); a BSON document *)
(* is cls = "bson" and carries dates at millisecond precision.             *)
(***************************************************************************)
Backends == {"local", "s3", "redis", "mongodb", "sql"}

PhoneNumbers == {<<"+", "1">>, <<"1">>, <<"2">>}

\* str.lstrip("+")
RECURSIVE lstrip_plus(_)
lstrip_plus(s) ==
    IF s # <<>> /\ Head(s) = "+" THEN lstrip_plus(Tail(s)) ELSE s

\* str.replace(old, new) for single characters
str_replace(s, old, new) == [i \in 1..Len(s) |-> IF s[i] = old THEN new ELSE s[i]]

\* safe_phone = phone_number.lstrip("+").replace(" ", "_").replace("-", "_")
safe_phone(phone) == str_replace(str_replace(lstrip_plus(phone), " ", "_"), "-", "_")

\* the key a backend stores a phone number under: LocalMemoryStore._get_file_path,
\* S3MemoryStore._get_key, RedisMemoryStore._get_key; MongoDB and SQL look the
\* phone number itself up
get_key(b, phone) ==
    CASE b = "local"   -> <<"Call_Memory/", safe_phone(phone), ".json">>
      [] b = "s3"      -> <<"call_memory/", safe_phone(phone), ".json">>
      [] b = "redis"   -> <<"call_memory:", safe_phone(phone)>>
      [] b = "mongodb" -> <<"phone_number", phone>>
      [] b = "sql"     -> <<"phone_number", phone>>

StoreKeys == {get_key(b, p) : b \in Backends, p \in PhoneNumbers}

\* str(datetime): json.dump(..., default=str)
date_to_str(dt) == [dt EXCEPT !.ty = "str"]

\* pydantic parses a datetime field from a datetime or from its string form
parse_date(x) == [x EXCEPT !.ty = "datetime"]

\* a BSON date holds milliseconds: the part below one millisecond is dropped
bson_date(dt) == [dt EXCEPT !.frac = 0]

\* one conversion applied to a datetime field
convert_date(how, x) ==
    CASE how = "str"   -> date_to_str(x)
      [] how = "parse" -> parse_date(x)
      [] how = "bson"  -> bson_date(x)

\* the conversion applied to every datetime field of a record
map_dates(obj, how) ==
    [obj EXCEPT !.first_call_date = convert_date(how, @),
                !.last_call_date = convert_date(how, @),
                !.facts = [i \in 1..Len(@) |->
                              [@[i] EXCEPT !.extracted_at = convert_date(how, @)]]]

has_datetime(obj) ==
    \/ obj.first_call_date.ty = "datetime"
    \/ obj.last_call_date.ty = "datetime"
    \/ \E i \in 1..Len(obj.facts) : obj.facts[i].extracted_at.ty = "datetime"

\* BaseModel.model_dump(): a dict of the fields, datetimes left as datetimes
model_dump(memory) ==
    IF memory.cls = "CallerMemory" THEN [memory EXCEPT !.cls = "dict"]
    ELSE Raise("AttributeError")

\* json.dumps(obj, default=str)
json_dumps_default_str(obj) ==
    IF obj.cls # "dict" THEN Raise("TypeError")
    ELSE [map_dates(obj, "str") EXCEPT !.cls = "json"]

\* json.dumps(obj): no default, so a datetime or a model object is a TypeError
json_dumps(obj) ==
    IF obj.cls # "dict" \/ has_datetime(obj) THEN Raise("TypeError")
    ELSE [obj EXCEPT !.cls = "json"]

\* json.loads / json.load
json_loads(text) ==
    IF text.cls = "json" THEN [text EXCEPT !.cls = "dict"]
    ELSE Raise("JSONDecodeError")

\* CallerMemory.model_validate(data): field constraints of CallerMemory and Fact
model_validate(data) ==
    IF data.cls \notin {"dict", "CallerMemory"} THEN Raise("ValidationError")
    ELSE IF \/ data.call_count < 0
            \/ \E i \in 1..Len(data.facts) :
                  data.facts[i].importance \notin ImportanceMin..ImportanceMax
         THEN Raise("ValidationError")
         ELSE [map_dates(data, "parse") EXCEPT !.cls = "CallerMemory"]

Corrupt == [cls |-> "corrupt"]

\* I/O outcomes of one backend call: "ok", "io" (the call fails and changes
\* nothing); a local write can also fail after open(path, "w") truncated the file
GetFaults == {"ok", "io"}
SaveFaults(b) == IF b = "local" THEN {"ok", "io", "partial"} ELSE {"ok", "io"}

\* LocalMemoryStore.get: every exception is logged and becomes None
local_get(st, phone, fault) ==
    LET content == st[get_key("local", phone)] IN
    IF fault # "ok" THEN None
    ELSE IF content = None THEN None
    ELSE LET data == json_loads(content) IN
         IF IsRaise(data) THEN None
         ELSE LET m == model_validate(data) IN IF IsRaise(m) THEN None ELSE m

\* LocalMemoryStore.save: every exception is logged and swallowed
local_save(st, phone, memory, fault) ==
    LET key == get_key("local", phone)
        text == json_dumps_default_str(model_dump(memory)) IN
    CASE fault = "io"      -> [ret |-> None, store |-> st]
      [] fault = "partial" -> [ret |-> None, store |-> [st EXCEPT ![key] = Corrupt]]
      [] fault = "ok"      ->
            IF IsRaise(text) THEN [ret |-> None, store |-> [st EXCEPT ![key] = Corrupt]]
            ELSE [ret |-> None, store |-> [st EXCEPT ![key] = text]]

\* S3MemoryStore.get: json.loads of the object body, returned as a dict
s3_get(st, phone, fault) ==
    LET content == st[get_key("s3", phone)] IN
    IF fault # "ok" THEN Raise("ClientError")
    ELSE IF content = None THEN None
    ELSE json_loads(content)

\* S3MemoryStore.save: json.dumps(memory) without model_dump and without default
s3_save(st, phone, memory, fault) ==
    LET key == get_key("s3", phone)
        body == json_dumps(memory) IN
    IF IsRaise(body) THEN [ret |-> body, store |-> st]
    ELSE IF fault # "ok" THEN [ret |-> Raise("ClientError"), store |-> st]
    ELSE [ret |-> None, store |-> [st EXCEPT ![key] = body]]

\* RedisMemoryStore.get
redis_get(st, phone, fault) ==
    LET content == st[get_key("redis", phone)] IN
    IF fault # "ok" THEN Raise("ConnectionError")
    ELSE IF content = None THEN None
    ELSE LET data == json_loads(content) IN
         IF IsRaise(data) THEN data ELSE model_validate(data)

\* RedisMemoryStore.save
redis_save(st, phone, memory, fault) ==
    LET key == get_key("redis", phone)
        data == json_dumps_default_str(model_dump(memory)) IN
    IF IsRaise(data) THEN [ret |-> data, store |-> st]
    ELSE IF fault # "ok" THEN [ret |-> Raise("ConnectionError"), store |-> st]
    ELSE [ret |-> None, store |-> [st EXCEPT ![key] = data]]

\* what pymongo hands back for a stored document
bson_decode(doc) == [doc EXCEPT !.cls = "dict"]

\* what pymongo stores for a dict
bson_encode(data) == [map_dates(data, "bson") EXCEPT !.cls = "bson"]

\* MongoDBMemoryStore.get
mongodb_get(st, phone, fault) ==
    LET doc == st[get_key("mongodb", phone)] IN
    IF fault # "ok" THEN Raise("PyMongoError")
    ELSE IF doc = None THEN None
    ELSE model_validate(bson_decode(doc))

\* an update that sets the facts only and leaves the other fields of a stored
\* document as they are
mongodb_save_facts_only(st, phone, memory, fault) ==
    LET key == get_key("mongodb", phone)
        data == model_dump(memory) IN
    IF IsRaise(data) THEN [ret |-> data, store |-> st]
    ELSE IF fault # "ok" THEN [ret |-> Raise("PyMongoError"), store |-> st]
    ELSE IF st[key] = None
         THEN [ret |-> None, store |-> [st EXCEPT ![key] = bson_encode(data)]]
         ELSE [ret |-> None,
               store |-> [st EXCEPT ![key].facts = bson_encode(data).facts]]

\* MongoDBMemoryStore.save: update_one(..., {"$set": data}, upsert=True)
mongodb_save(st, phone, memory, fault) ==
    LET key == get_key("mongodb", phone)
        data == model_dump(memory) IN
    IF IsRaise(data) THEN [ret |-> data, store |-> st]
    ELSE IF fault # "ok" THEN [ret |-> Raise("PyMongoError"), store |-> st]
    ELSE [ret |-> None, store |-> [st EXCEPT ![key] = bson_encode(data)]]

\* SQLMemoryStore.get
sql_get(st, phone, fault) ==
    LET row == st[get_key("sql", phone)] IN
    IF fault # "ok" THEN Raise("SQLAlchemyError")
    ELSE IF row = None THEN None
    ELSE LET data == json_loads(row) IN
         IF IsRaise(data) THEN data ELSE model_validate(data)

\* SQLMemoryStore.save: logs and re-raises
sql_save(st, phone, memory, fault) ==
    LET key == get_key("sql", phone)
        memory_dict == model_dump(memory)
        memory_json == IF IsRaise(memory_dict) THEN memory_dict
                       ELSE json_dumps_default_str(memory_dict) IN
    IF IsRaise(memory_json) THEN [ret |-> memory_json, store |-> st]
    ELSE IF fault # "ok" THEN [ret |-> Raise("SQLAlchemyError"), store |-> st]
    ELSE [ret |-> None, store |-> [st EXCEPT ![key] = memory_json]]

\* a Python bool from a truth value
Bool(truth) == IF truth THEN True ELSE False

\* LocalMemoryStore.delete: every exception is logged and becomes False
local_delete(st, phone, fault) ==
    LET key == get_key("local", phone) IN
    IF fault # "ok" THEN [ret |-> False, store |-> st]
    ELSE IF st[key] = None THEN [ret |-> False, store |-> st]
    ELSE [ret |-> True, store |-> [st EXCEPT ![key] = None]]

\* LocalMemoryStore.exists: os.path.exists, which is False when stat fails
local_exists(st, phone, fault) ==
    IF fault # "ok" THEN False ELSE Bool(st[get_key("local", phone)] # None)

\* S3MemoryStore.delete: delete_object, nothing returned
s3_delete(st, phone, fault) ==
    LET key == get_key("s3", phone) IN
    IF fault # "ok" THEN [ret |-> Raise("ClientError"), store |-> st]
    ELSE [ret |-> None, store |-> [st EXCEPT ![key] = None]]

\* S3MemoryStore.exists: head_object, every exception becomes False
s3_exists(st, phone, fault) ==
    IF fault # "ok" THEN False ELSE Bool(st[get_key("s3", phone)] # None)

\* RedisMemoryStore.delete
redis_delete(st, phone, fault) ==
    LET key == get_key("redis", phone) IN
    IF fault # "ok" THEN [ret |-> Raise("ConnectionError"), store |-> st]
    ELSE [ret |-> Bool(st[key] # None), store |-> [st EXCEPT ![key] = None]]

\* RedisMemoryStore.exists
redis_exists(st, phone, fault) ==
    IF fault # "ok" THEN Raise("ConnectionError")
    ELSE Bool(st[get_key("redis", phone)] # None)

\* MongoDBMemoryStore.delete
mongodb_delete(st, phone, fault) ==
    LET key == get_key("mongodb", phone) IN
    IF fault # "ok" THEN [ret |-> Raise("PyMongoError"), store |-> st]
    ELSE [ret |-> Bool(st[key] # None), store |-> [st EXCEPT ![key] = None]]

\* MongoDBMemoryStore.exists
mongodb_exists(st, phone, fault) ==
    IF fault # "ok" THEN Raise("PyMongoError")
    ELSE Bool(st[get_key("mongodb", phone)] # None)

\* SQLMemoryStore.delete
sql_delete(st, phone, fault) ==
    LET key == get_key("sql", phone) IN
    IF fault # "ok" THEN [ret |-> Raise("SQLAlchemyError"), store |-> st]
    ELSE [ret |-> Bool(st[key] # None), store |-> [st EXCEPT ![key] = None]]

\* SQLMemoryStore.exists
sql_exists(st, phone, fault) ==
    IF fault # "ok" THEN Raise("SQLAlchemyError")
    ELSE Bool(st[get_key("sql", phone)] # None)

\* MemoryStore.get of the selected backend: a CallerMemory, None, or an exception
store_get(b, st, phone, fault) ==
    CASE b = "local"   -> local_get(st, phone, fault)
      [] b = "s3"      -> s3_get(st, phone, fault)
      [] b = "redis"   -> redis_get(st, phone, fault)
      [] b = "mongodb" -> mongodb_get(st, phone, fault)
      [] b = "sql"     -> sql_get(st, phone, fault)

\* MemoryStore.save of the selected backend: [ret: None or an exception, store]
store_save(b, st, phone, memory, fault) ==
    CASE b = "local"   -> local_save(st, phone, memory, fault)
      [] b = "s3"      -> s3_save(st, phone, memory, fault)
      [] b = "redis"   -> redis_save(st, phone, memory, fault)
      [] b = "mongodb" -> mongodb_save(st, phone, memory, fault)
      [] b = "sql"     -> sql_save(st, phone, memory, fault)

\* MemoryStore.delete of the selected backend: [ret, store]
store_delete(b, st, phone, fault) ==
    CASE b = "local"   -> local_delete(st, phone, fault)
      [] b = "s3"      -> s3_delete(st, phone, fault)
      [] b = "redis"   -> redis_delete(st, phone, fault)
      [] b = "mongodb" -> mongodb_delete(st, phone, fault)
      [] b = "sql"     -> sql_delete(st, phone, fault)

\* MemoryStore.exists of the selected backend: a bool or an exception
store_exists(b, st, phone, fault) ==
    CASE b = "local"   -> local_exists(st, phone, fault)
      [] b = "s3"      -> s3_exists(st, phone, fault)
      [] b = "redis"   -> redis_exists(st, phone, fault)
      [] b = "mongodb" -> mongodb_exists(st, phone, fault)
      [] b = "sql"     -> sql_exists(st, phone, fault)

EmptyStore == [k \in StoreKeys |-> None]

StorageOff == backend = "local" /\ store = EmptyStore
MergeOff ==
    /\ mg_pc = "off" /\ mg_existing = <<>> /\ mg_new = <<>>
    /\ mg_merged = <<>> /\ mg_remerged = <<>>
ServiceOff == now = Datetime(0, 0) /\ events = 0 /\ svc = <<>> /\ ret = [op |-> "none"]
StoreOff == sp_op = [op |-> "none"] /\ sp_saved = [p \in PhoneNumbers |-> None]
BackendsOff == bk = [op |-> "off"]
ExtractOff == ex = [pc |-> "off"]
CallOff == cl = [op |-> "off"]
CacheOff == ca = [op |-> "off"]
FlowOff == fl = [pc |-> "off"]
AgentOff == ag = [pc |-> "off"]
TrunkOff == tk = [op |-> "off"]
FormatOff == fm = [pc |-> "off"]

(***************************************************************************)
(* StoreSpec: one backend, chosen at construction, called directly.        *)
(***************************************************************************)
\* the records handed to MemoryStore.save: CallerMemory objects for the id
Records(phone) ==
    { CallerMemory(phone, Datetime(0, 0), Datetime(0, 0), 0, <<>>),
      CallerMemory(phone, Datetime(0, 1), Datetime(1, 0), 1,
                   <<Fact(1, <<"v", 1>>, 10, Datetime(1, 0), "llm")>>),
      CallerMemory(phone, Datetime(0, 0), Datetime(1, 0), 2,
                   <<Fact(1, <<"v", 1>>, 10, Datetime(1, 0), "llm"),
                     Fact(2, <<"v", 2>>, 4, Datetime(0, 0), None)>>) }

StoreInit ==
    /\ backend \in Backends
    /\ store = EmptyStore
    /\ sp_op = [op |-> "none"]
    /\ sp_saved = [p \in PhoneNumbers |-> None]
    /\ MergeOff
    /\ ServiceOff
    /\ BackendsOff
    /\ ExtractOff
    /\ CallOff
    /\ CacheOff
    /\ FlowOff
    /\ AgentOff
    /\ TrunkOff
    /\ FormatOff

\* ids other than `phone` that the backend stores under the same key
Aliases(b, phone) == {q \in PhoneNumbers \ {phone} : get_key(b, q) = get_key(b, phone)}

StoreSave(phone, memory, fault) ==
    LET r == store_save(backend, store, phone, memory, fault) IN
    /\ store' = r.store
    /\ sp_op' = [op |-> "save", phone |-> phone, fault |-> fault, ret |-> r.ret]
    /\ sp_saved' = [q \in PhoneNumbers |->
                      IF q = phone THEN (IF fault = "ok" THEN memory ELSE None)
                      ELSE IF q \in Aliases(backend, phone) THEN None
                      ELSE sp_saved[q]]
    /\ UNCHANGED <<backend, mg_vars, sv_vars, bk_vars, ex_vars, cl_vars, ca_vars, fl_vars, ag_vars, tk_vars, fm_vars>>

StoreGet(phone, fault) ==
    /\ sp_op' = [op |-> "get", phone |-> phone, fault |-> fault,
                 ret |-> store_get(backend, store, phone, fault)]
    /\ UNCHANGED <<backend, store, sp_saved, mg_vars, sv_vars, bk_vars, ex_vars, cl_vars, ca_vars, fl_vars, ag_vars, tk_vars, fm_vars>>

StoreDelete(phone, fault) ==
    LET r == store_delete(backend, store, phone, fault) IN
    /\ store' = r.store
    /\ sp_op' = [op |-> "delete", phone |-> phone, fault |-> fault, ret |-> r.ret]
    /\ sp_saved' = [q \in PhoneNumbers |->
                      IF q = phone \/ q \in Aliases(backend, phone) THEN None
                      ELSE sp_saved[q]]
    /\ UNCHANGED <<backend, mg_vars, sv_vars, bk_vars, ex_vars, cl_vars, ca_vars, fl_vars, ag_vars, tk_vars, fm_vars>>

StoreExists(phone, fault) ==
    /\ sp_op' = [op |-> "exists", phone |-> phone, fault |-> fault,
                 ret |-> store_exists(backend, store, phone, fault)]
    /\ UNCHANGED <<backend, store, sp_saved, mg_vars, sv_vars, bk_vars, ex_vars, cl_vars, ca_vars, fl_vars, ag_vars, tk_vars, fm_vars>>

StoreNext ==
    \/ \E phone \in PhoneNumbers, fault \in SaveFaults(backend) :
          \E memory \in Records(phone) : StoreSave(phone, memory, fault)
    \/ \E phone \in PhoneNumbers, fault \in GetFaults : StoreGet(phone, fault)
    \/ \E phone \in PhoneNumbers, fault \in GetFaults : StoreDelete(phone, fault)
    \/ \E phone \in PhoneNumbers, fault \in GetFaults : StoreExists(phone, fault)

StoreSpec == StoreInit /\ [][StoreNext]_vars

\* C10: storage round trip.  For every backend and record R, save(id, R)
\* followed by get(id), with no write in between and no I/O failure in either
\* call, returns a record whose schema fields equal those of R.
C10_RoundTrip ==
    (/\ sp_op.op = "get"
     /\ sp_op.fault = "ok"
     /\ sp_saved[sp_op.phone] # None)
    => sp_op.ret = sp_saved[sp_op.phone]

\* C12: operations on different ids do not interfere.  A save or delete for
\* one id never changes what get or exists returns for another id.
C12_NoInterference ==
    [][sp_op'.op \in {"save", "delete"} =>
          \A other \in PhoneNumbers \ {sp_op'.phone} :
              /\ store_get(backend, store', other, "ok")
                    = store_get(backend, store, other, "ok")
              /\ store_exists(backend, store', other, "ok")
                    = store_exists(backend, store, other, "ok")]_vars

(***************************************************************************)
(* BackendsSpec: the five MemoryStore variants, each with its own content, *)
(* receive the same sequence of calls with the same I/O outcome.           *)
(***************************************************************************)
BackendsInit ==
    /\ bk = [op |-> "none", stores |-> [b \in Backends |-> EmptyStore],
             rets |-> [b \in Backends |-> None]]
    /\ StorageOff
    /\ StoreOff
    /\ MergeOff
    /\ ServiceOff
    /\ ExtractOff
    /\ CallOff
    /\ CacheOff
    /\ FlowOff
    /\ AgentOff
    /\ TrunkOff
    /\ FormatOff

BackendsSave(phone, memory, fault) ==
    LET r == [b \in Backends |-> store_save(b, bk.stores[b], phone, memory, fault)] IN
    /\ bk.op # "off"
    /\ bk' = [op |-> "save", phone |-> phone, fault |-> fault,
              stores |-> [b \in Backends |-> r[b].store],
              rets |-> [b \in Backends |-> r[b].ret]]
    /\ UNCHANGED <<st_vars, sp_vars, mg_vars, sv_vars, ex_vars, cl_vars, ca_vars, fl_vars, ag_vars, tk_vars, fm_vars>>

BackendsGet(phone, fault) ==
    /\ bk.op # "off"
    /\ bk' = [op |-> "get", phone |-> phone, fault |-> fault, stores |-> bk.stores,
              rets |-> [b \in Backends |-> store_get(b, bk.stores[b], phone, fault)]]
    /\ UNCHANGED <<st_vars, sp_vars, mg_vars, sv_vars, ex_vars, cl_vars, ca_vars, fl_vars, ag_vars, tk_vars, fm_vars>>

BackendsDelete(phone, fault) ==
    LET r == [b \in Backends |-> store_delete(b, bk.stores[b], phone, fault)] IN
    /\ bk.op # "off"
    /\ bk' = [op |-> "delete", phone |-> phone, fault |-> fault,
              stores |-> [b \in Backends |-> r[b].store],
              rets |-> [b \in Backends |-> r[b].ret]]
    /\ UNCHANGED <<st_vars, sp_vars, mg_vars, sv_vars, ex_vars, cl_vars, ca_vars, fl_vars, ag_vars, tk_vars, fm_vars>>

BackendsExists(phone, fault) ==
    /\ bk.op # "off"
    /\ bk' = [op |-> "exists", phone |-> phone, fault |-> fault, stores |-> bk.stores,
              rets |-> [b \in Backends |-> store_exists(b, bk.stores[b], phone, fault)]]
    /\ UNCHANGED <<st_vars, sp_vars, mg_vars, sv_vars, ex_vars, cl_vars, ca_vars, fl_vars, ag_vars, tk_vars, fm_vars>>

BackendsNext ==
    \/ \E phone \in PhoneNumbers, fault \in GetFaults :
          \E memory \in Records(phone) : BackendsSave(phone, memory, fault)
    \/ \E phone \in PhoneNumbers, fault \in GetFaults : BackendsGet(phone, fault)
    \/ \E phone \in PhoneNumbers, fault \in GetFaults : BackendsDelete(phone, fault)
    \/ \E phone \in PhoneNumbers, fault \in GetFaults : BackendsExists(phone, fault)

BackendsSpec == BackendsInit /\ [][BackendsNext]_vars

\* the kind of outcome of a call: "error", or the type of the value returned
Kind(result) == IF IsRaise(result) THEN "error" ELSE result.cls

\* C11: all storage backends are behaviourally indistinguishable.  After any
\* sequence of get/save/delete/exists calls, with or without I/O failures,
\* every backend gives the same kind of outcome for the last call as every
\* other, and the same value when the call returned one.
C11_Indistinguishable ==
    bk.op # "none" =>
        \A b1, b2 \in Backends :
            /\ Kind(bk.rets[b1]) = Kind(bk.rets[b2])
            /\ Kind(bk.rets[b1]) # "error" => bk.rets[b1] = bk.rets[b2]

(***************************************************************************)
(* Extraction (memory/extraction/llm_extractor.py, schemas.py).            *)
(*                                                                         *)
(* Texts are sequences of characters.  A conversation is a sequence of     *)
(* messages [role, content]; content may be None.  The model behind `llm`  *)
(* is a stub: a script of responses, one per attempt, the last repeating.  *)
(* A response is a text the JSON parser accepts ("json", with the facts it *)
(* decodes to), a text it rejects even after repair ("garbage"), or no     *)
(* text at all ("empty": the call raised or returned nothing).             *)
(***************************************************************************)
MaxRetries == 10
MinImportance == 4
ExtractorMaxFacts == 50
SchemaMaxFacts == 15
KeyMaxLength == 100
ValueMaxLength == 1000
ShortValueLength == 8
LongValueLength == 15

Msg(role, content) == [role |-> role, content |-> content]

\* str.strip() on spaces
RECURSIVE lstrip(_)
lstrip(s) == IF s # <<>> /\ Head(s) = " " THEN lstrip(Tail(s)) ELSE s

RECURSIVE rstrip(_)
rstrip(s) ==
    IF s # <<>> /\ s[Len(s)] = " " THEN rstrip(SubSeq(s, 1, Len(s) - 1)) ELSE s

strip(s) == rstrip(lstrip(s))

\* `sub in s`
contains(s, sub) ==
    \E i \in 1..(Len(s) - Len(sub) + 1) : SubSeq(s, i, i + Len(sub) - 1) = sub

\* str.lower() on the letters the model uses
lower_char(c) ==
    CASE c = "N" -> "n"
      [] c = "T" -> "t"
      [] c = "S" -> "s"
      [] OTHER   -> c

lower(s) == [i \in 1..Len(s) |-> lower_char(s[i])]

\* ExtractedFact.validate_key_format
validate_key_format(v) == str_replace(str_replace(strip(lower(v)), " ", "_"), "-", "_")

\* any(msg.get('role') == 'user' and msg.get('content', '').strip() ...):
\* "true", "false", or "raise" for the AttributeError of None.strip()
RECURSIVE has_user_content(_)
has_user_content(history) ==
    IF history = <<>> THEN "false"
    ELSE LET msg == Head(history) IN
         IF msg.role # "user" THEN has_user_content(Tail(history))
         ELSE IF msg.content = None THEN "raise"
         ELSE IF strip(msg.content.chars) # <<>> THEN "true"
         ELSE has_user_content(Tail(history))

\* FactExtractor._format_conversation: the messages that have content
format_conversation(history) ==
    SelectSeq(history, LAMBDA msg : msg.content # None /\ msg.content.chars # <<>>)

\* LLMFactExtractor._has_sufficient_context
has_sufficient_context(extracted_fact) ==
    LET value == strip(extracted_fact.value) IN
    IF Len(value) < ShortValueLength THEN FALSE
    ELSE IF contains(value, <<"(">>) /\ contains(value, <<")">>) THEN TRUE
    ELSE IF Len(value) >= LongValueLength THEN TRUE
    ELSE \E indicator \in {<<"(">>, <<" ", "-", " ">>, <<":", " ">>, <<"f", "o", "r">>,
                           <<"a", "t">>, <<"o", "n">>, <<"t", "o">>} :
            contains(lower(value), indicator)

\* FactExtractionOutput.model_validate: the field constraints of ExtractedFact
\* and the max_length of the list
schema_valid(raw_facts) ==
    /\ Len(raw_facts) <= SchemaMaxFacts
    /\ \A i \in 1..Len(raw_facts) :
          /\ Len(raw_facts[i].key) \in 1..KeyMaxLength
          /\ Len(raw_facts[i].value) \in 1..ValueMaxLength
          /\ raw_facts[i].importance \in ImportanceMin..ImportanceMax

\* LLMFactExtractor._parse_and_validate on a text that parsed and validated:
\* normalise keys, keep importance >= min_importance with sufficient context,
\* build Fact objects (extracted_at defaults to utcnow()), facts[:max_facts]
\* (an extractor that keeps every validated fact whatever its importance)
parse_and_validate_unfiltered(raw_facts, clock, min_importance) ==
    LET validated == [i \in 1..Len(raw_facts) |->
                        [raw_facts[i] EXCEPT !.key = validate_key_format(@)]]
        kept == SelectSeq(validated, LAMBDA f : has_sufficient_context(f))
        facts == [i \in 1..Len(kept) |->
                    Fact(kept[i].key, kept[i].value, kept[i].importance, clock, "llm")]
    IN  SubSeq(facts, 1, Min(Len(facts), ExtractorMaxFacts))

\* the same for an extractor constructed with min_importance
parse_and_validate_with(raw_facts, clock, min_importance) ==
    LET validated == [i \in 1..Len(raw_facts) |->
                        [raw_facts[i] EXCEPT !.key = validate_key_format(@)]]
        kept == SelectSeq(validated, LAMBDA f :
                    f.importance >= min_importance /\ has_sufficient_context(f))
        facts == [i \in 1..Len(kept) |->
                    Fact(kept[i].key, kept[i].value, kept[i].importance, clock, "llm")]
    IN  SubSeq(facts, 1, Min(Len(facts), ExtractorMaxFacts))

\* the extractor the service constructs: LLMFactExtractor(llm=llm)
parse_and_validate(raw_facts, clock) ==
    parse_and_validate_with(raw_facts, clock, MinImportance)

\* the stub's response to the n-th call
Response(llm, n) == llm.script[Min(n, Len(llm.script))]

ExtractionResult(success, facts, attempts) ==
    [cls |-> "ExtractionResult", success |-> success, facts |-> facts,
     attempts |-> attempts]

\* the retry loop of LLMFactExtractor.extract, from attempt n on
RECURSIVE extract_from(_, _, _)
extract_from(llm, n, clock) ==
    IF n > MaxRetries THEN ExtractionResult(FALSE, <<>>, MaxRetries)
    ELSE LET r == Response(llm, n) IN
         IF r.kind = "json" /\ schema_valid(r.facts)
         THEN ExtractionResult(TRUE, parse_and_validate(r.facts, clock), n)
         ELSE extract_from(llm, n + 1, clock)

\* LLMFactExtractor.extract
extract(history, llm, clock) ==
    IF history = <<>> THEN ExtractionResult(TRUE, <<>>, 0)
    ELSE LET user == has_user_content(history) IN
         IF user = "raise" THEN Raise("AttributeError")
         ELSE IF user = "false" THEN ExtractionResult(TRUE, <<>>, 0)
         ELSE IF format_conversation(history) = <<>> THEN ExtractionResult(TRUE, <<>>, 0)
         ELSE extract_from(llm, 1, clock)

\* MemoryService._extract_facts: [facts, outcome]; every failure becomes []
extract_facts(history, llm, clock) ==
    LET result == extract(history, llm, clock) IN
    IF IsRaise(result) THEN [facts |-> <<>>, outcome |-> "raised"]
    ELSE IF ~result.success THEN [facts |-> <<>>, outcome |-> "failed"]
    ELSE IF result.facts = <<>> THEN [facts |-> <<>>, outcome |-> "empty"]
    ELSE [facts |-> result.facts, outcome |-> "facts"]

\* lines 125-128 of MemoryService.save: extraction runs only with both a
\* conversation and a model
save_new_facts(history, llm, clock) ==
    IF history # None /\ history.items # <<>> /\ llm # None
    THEN extract_facts(history.items, llm, clock)
    ELSE [facts |-> <<>>, outcome |-> "skipped"]

(***************************************************************************)
(* MemoryService (memory/service.py).                                      *)
(***************************************************************************)
TtlDays == 90

\* datetime > datetime
date_gt(a, b) == a.day > b.day \/ (a.day = b.day /\ a.frac > b.frac)

\* datetime >= datetime
date_ge(a, b) == a.day > b.day \/ (a.day = b.day /\ a.frac >= b.frac)

\* MemoryService._filter_expired_facts with the default ttl_days
filter_expired_facts(facts, clock) ==
    LET cutoff == [clock EXCEPT !.day = @ - TtlDays] IN
    SelectSeq(facts, LAMBDA fact : date_ge(fact.extracted_at, cutoff))

\* the except clause of load / save lets every exception out
handle_nothing(result, sentinel) == result

\* `except Exception as e: ... return <sentinel>`
handle_exception(result, sentinel) == IF IsRaise(result) THEN sentinel ELSE result

\* the body of the try block of MemoryService.load: the value it returns or
\* the exception it raises
load_body(b, st, phone, fault, clock) ==
    LET memory == store_get(b, st, phone.chars, fault) IN
    IF IsRaise(memory) THEN memory
    ELSE IF memory = None THEN None
    ELSE IF memory.cls # "CallerMemory" THEN Raise("AttributeError")
    ELSE [memory EXCEPT !.facts = filter_expired_facts(@, clock)]

\* (a read that turns every exception into a fresh record)
save_existing_forgiving(b, st, phone, fault, clock) ==
    LET existing == store_get(b, st, phone.chars, fault) IN
    IF IsRaise(existing) \/ existing = None
    THEN CallerMemory(phone.chars, clock, clock, 0, <<>>)
    ELSE IF existing.cls # "CallerMemory" THEN Raise("AttributeError")
    ELSE existing

\* lines 116-123 of MemoryService.save: the existing record, a fresh one for a
\* new caller, or the exception raised on the way
save_existing(b, st, phone, fault, clock) ==
    LET existing == store_get(b, st, phone.chars, fault) IN
    IF IsRaise(existing) THEN existing
    ELSE IF existing = None THEN CallerMemory(phone.chars, clock, clock, 0, <<>>)
    ELSE IF existing.cls # "CallerMemory" THEN Raise("AttributeError")
    ELSE existing

\* the record to write, built from the new facts alone
save_memory_forgetful(phone, existing, new_facts, clock) ==
    CallerMemory(phone.chars, existing.first_call_date, clock, existing.call_count + 1,
                 merge_facts(<<>>, new_facts))

\* lines 130-141 of MemoryService.save: the record to write
save_memory(phone, existing, new_facts, clock) ==
    CallerMemory(phone.chars, existing.first_call_date, clock, existing.call_count + 1,
                 merge_facts(existing.facts, new_facts))

Procs == {"a", "b"}

\* the phone_number argument of load and save: a phone number, or omitted
PhoneArgs == <<None, Str(<<"+", "1">>)>>

NoRet == [op |-> "none"]

Service(enabled, phone) ==
    [enabled |-> enabled, phone_number |-> phone, loaded_memory |-> None,
     pc |-> "idle", phone |-> None, existing |-> None, new_facts |-> <<>>,
     outcome |-> "none", faulted |-> FALSE, overlapped |-> FALSE,
     group |-> 0, base |-> 0]

\* how the two service instances were constructed
Deployments ==
    << [p \in Procs |-> IF p = "a" THEN Service(TRUE, Str(<<"+", "1">>))
                        ELSE Service(TRUE, None)],
       [p \in Procs |-> Service(FALSE, Str(<<"1">>))] >>

\* message texts
TextHi == Str(<<"h", "i">>)
TextBlank == Str(<<" ">>)

\* values: "Sam", "Sam (name)" and "2pm (appt)"
ValueSam == <<"S", "a", "m">>
ValueName == <<"S", "a", "m", " ", "(", "n", "a", "m", "e", ")">>
ValueTime == <<"2", "p", "m", " ", "(", "a", "p", "p", "t", ")">>

RawFact(k, v, i) == [key |-> k, value |-> v, importance |-> i]
Json(raw_facts) == [kind |-> "json", facts |-> raw_facts]
Garbage == [kind |-> "garbage"]
Empty == [kind |-> "empty"]
Llm(script) == [cls |-> "llm", script |-> script]

\* models: one that answers with a well-formed fact, one that answers with
\* garbage, then nothing, then a list with a padded key, a repeated key and an
\* unimportant fact, and ones that answer with an empty list, a value without
\* context, an importance out of range, and garbage forever
LlmName == Llm(<<Json(<<RawFact(<<"n">>, ValueName, 10)>>)>>)
LlmFlaky ==
    Llm(<<Garbage, Empty,
          Json(<<RawFact(<<"N", " ">>, ValueTime, 10), RawFact(<<"t">>, ValueTime, 9),
                 RawFact(<<"n">>, ValueName, 4), RawFact(<<"s">>, ValueName, 3)>>)>>)
LlmNothing == Llm(<<Json(<<>>)>>)
LlmBare == Llm(<<Json(<<RawFact(<<"n">>, ValueSam, 10)>>)>>)
LlmRange == Llm(<<Json(<<RawFact(<<"n">>, ValueName, 11)>>)>>)
LlmGarbage == Llm(<<Garbage>>)

\* the conversation history and the model handed to save
Conversation(history, llm) == [history |-> history, llm |-> llm]
UserSaidHi == List(<<Msg("assistant", TextHi), Msg("user", TextHi)>>)
Conversations ==
    << Conversation(None, LlmName),
       Conversation(List(<<>>), LlmName),
       Conversation(UserSaidHi, None),
       Conversation(List(<<Msg("assistant", TextHi)>>), LlmName),
       Conversation(List(<<Msg("assistant", TextHi), Msg("user", TextBlank)>>), LlmName),
       Conversation(List(<<Msg("user", None)>>), LlmName),
       Conversation(UserSaidHi, LlmName),
       Conversation(UserSaidHi, LlmFlaky),
       Conversation(UserSaidHi, LlmNothing),
       Conversation(UserSaidHi, LlmBare),
       Conversation(UserSaidHi, LlmRange),
       Conversation(UserSaidHi, LlmGarbage) >>

MaxEvents == 3
Days == {TtlDays, TtlDays + 1}

Init ==
    /\ backend \in Backends
    /\ store = EmptyStore
    /\ now = Datetime(0, 1)
    /\ events = 0
    /\ \E d \in 1..Len(Deployments) : svc = Deployments[d]
    /\ ret = NoRet
    /\ MergeOff
    /\ StoreOff
    /\ BackendsOff
    /\ ExtractOff
    /\ CallOff
    /\ CacheOff
    /\ FlowOff
    /\ AgentOff
    /\ TrunkOff
    /\ FormatOff

Tick ==
    /\ events < MaxEvents
    /\ events' = events + 1
    /\ \E d \in Days : d > now.day /\ now' = [now EXCEPT !.day = d]
    /\ UNCHANGED <<svc, ret, st_vars, sp_vars, mg_vars, bk_vars, ex_vars, cl_vars, ca_vars, fl_vars, ag_vars, tk_vars, fm_vars>>

\* (only a missing phone number makes load and save return at once)
skips_without_phone_only(enabled, phone) == phone = None

\* `if not self._enabled: return ...` and `if not phone: return ...`
skips(enabled, phone) == ~enabled \/ phone = None

\* `phone_number or self._phone_number`
PhoneOf(p, phone_number) ==
    IF phone_number # None THEN phone_number ELSE svc[p].phone_number

\* a load that writes the filtered record back to the store
LoadMemoryPruning(p, phone_number, fault) ==
    LET phone == IF phone_number # None THEN phone_number ELSE svc[p].phone_number
        memory == IF skips(svc[p].enabled, phone) THEN None
                  ELSE handle_exception(load_body(backend, store, phone, fault, now), None)
    IN
    /\ svc[p].pc = "idle"
    /\ events < MaxEvents
    /\ events' = events + 1
    /\ svc' = [svc EXCEPT ![p].loaded_memory = IF memory = None THEN @ ELSE memory]
    /\ ret' = [op |-> "load", phone |-> phone, value |-> memory,
               faulted |-> (fault # "ok")]
    /\ store' = IF memory = None THEN store
                ELSE store_save(backend, store, phone.chars, memory, "ok").store
    /\ UNCHANGED <<now, backend, sp_vars, mg_vars, bk_vars, ex_vars, cl_vars, ca_vars, fl_vars, ag_vars, tk_vars, fm_vars>>

\* MemoryService.load, start to return
LoadMemory(p, phone_number, fault) ==
    LET phone == PhoneOf(p, phone_number)
        memory == IF skips(svc[p].enabled, phone) THEN None
                  ELSE handle_exception(load_body(backend, store, phone, fault, now), None)
    IN
    /\ svc[p].pc = "idle"
    /\ events < MaxEvents
    /\ events' = events + 1
    /\ svc' = [svc EXCEPT ![p].loaded_memory = IF memory = None THEN @ ELSE memory]
    /\ ret' = [op |-> "load", phone |-> phone, value |-> memory,
               faulted |-> (fault # "ok")]
    /\ UNCHANGED <<now, st_vars, sp_vars, mg_vars, bk_vars, ex_vars, cl_vars, ca_vars, fl_vars, ag_vars, tk_vars, fm_vars>>

InFlight == {q \in Procs : svc[q].pc = "write"}

\* the saves in progress for the same id as the save that p starts
Rivals(p, phone) == {q \in InFlight \ {p} : svc[q].phone = phone}

\* how many saves overlap, directly or through one another, with the save
\* that p starts for this id, itself included
GroupSize(p, phone) ==
    IF Rivals(p, phone) = {} THEN 1
    ELSE 1 + svc[CHOOSE q \in Rivals(p, phone) : TRUE].group

\* the stored call_count when the first of those saves started
GroupBase(p, phone) ==
    IF Rivals(p, phone) = {}
    THEN LET doc == store[get_key(backend, phone.chars)] IN
         IF doc # None /\ doc # Corrupt THEN doc.call_count ELSE 0
    ELSE svc[CHOOSE q \in Rivals(p, phone) : TRUE].base

SaveRet(p, phone, value, outcome, faulted, overlapped) ==
    [op |-> "save", phone |-> phone, value |-> value, outcome |-> outcome,
     faulted |-> faulted, overlapped |-> overlapped]

\* MemoryService.save up to the end of extraction: the early returns, the
\* read of the existing record, the extraction of new facts
SaveStart(p, phone_number, history, llm, fault) ==
    LET phone == PhoneOf(p, phone_number)
        existing == save_existing(backend, store, phone, fault, now)
        extracted == save_new_facts(history, llm, now)
    IN
    /\ svc[p].pc = "idle"
    /\ events < MaxEvents
    /\ events' = events + 1
    /\ IF skips(svc[p].enabled, phone)
       THEN /\ ret' = SaveRet(p, phone, False, "none", FALSE, FALSE)
            /\ svc' = svc
       ELSE IF IsRaise(existing)
       THEN /\ ret' = SaveRet(p, phone, handle_exception(existing, False), "none",
                              fault # "ok", InFlight # {})
            /\ svc' = svc
       ELSE /\ ret' = ret
            /\ svc' = [q \in Procs |->
                  IF q = p
                  THEN [svc[p] EXCEPT !.pc = "write", !.phone = phone,
                                      !.existing = existing,
                                      !.new_facts = extracted.facts,
                                      !.outcome = extracted.outcome,
                                      !.faulted = (fault # "ok"),
                                      !.overlapped = (InFlight # {}),
                                      !.group = GroupSize(p, phone),
                                      !.base = GroupBase(p, phone)]
                  ELSE IF q \in Rivals(p, phone)
                       THEN [svc[q] EXCEPT !.overlapped = TRUE,
                                           !.group = GroupSize(p, phone)]
                  ELSE IF q \in InFlight THEN [svc[q] EXCEPT !.overlapped = TRUE]
                  ELSE svc[q]]
    /\ UNCHANGED <<now, st_vars, sp_vars, mg_vars, bk_vars, ex_vars, cl_vars, ca_vars, fl_vars, ag_vars, tk_vars, fm_vars>>

\* MemoryService.save from the merge on: build the record, write it, return
SaveFinish(p, fault) ==
    LET me == svc[p]
        memory == save_memory(me.phone, me.existing, me.new_facts, now)
        written == store_save(backend, store, me.phone.chars, memory, fault)
        value == handle_exception(IF IsRaise(written.ret) THEN written.ret ELSE True, False)
    IN
    /\ me.pc = "write"
    /\ store' = written.store
    /\ svc' = [svc EXCEPT
          ![p] = [me EXCEPT !.pc = "idle", !.phone = None, !.existing = None,
                            !.new_facts = <<>>, !.outcome = "none",
                            !.faulted = FALSE, !.overlapped = FALSE,
                            !.group = 0, !.base = 0]]
    /\ ret' = SaveRet(p, me.phone, value, me.outcome, me.faulted \/ fault # "ok",
                      me.overlapped)
    /\ UNCHANGED <<now, events, backend, sp_vars, mg_vars, bk_vars, ex_vars, cl_vars, ca_vars, fl_vars, ag_vars, tk_vars, fm_vars>>

Next ==
    \/ Tick
    \/ \E p \in Procs, a \in 1..Len(PhoneArgs), fault \in GetFaults :
          LoadMemory(p, PhoneArgs[a], fault)
    \/ \E p \in Procs, a \in 1..Len(PhoneArgs), fault \in GetFaults :
          \E c \in 1..Len(Conversations) :
              SaveStart(p, PhoneArgs[a], Conversations[c].history, Conversations[c].llm, fault)
    \/ \E p \in Procs, fault \in SaveFaults(backend) : SaveFinish(p, fault)

Spec == Init /\ [][Next]_vars

(***************************************************************************)
(* Properties of MemoryService.save and MemoryService.load.                *)
(***************************************************************************)
\* what a backend holds for a key, read as a record: nothing readable counts
\* as no record
Readable(doc) == doc # None /\ doc # Corrupt
StoredCount(doc) == IF Readable(doc) THEN doc.call_count ELSE 0
StoredFacts(doc) == IF Readable(doc) THEN doc.facts ELSE <<>>

\* a datetime as the backend holds it
StoredDate(b, dt) == IF b = "mongodb" THEN bson_date(dt) ELSE date_to_str(dt)

\* the step in which the save of instance p returns true, no other save
\* having been in progress during it
SaveReturnsTrue(p) ==
    /\ svc[p].pc = "write" /\ svc'[p].pc = "idle"
    /\ ~svc[p].overlapped
    /\ ret'.value = True

ExtractedNothing == {"empty", "failed", "raised", "skipped"}

\* C1: every non-overlapping save that returns true leaves the persisted
\* call_count exactly one greater than it was before the save (1 when there
\* was no record)
C1_CountIncrements ==
    [][\A p \in Procs :
          SaveReturnsTrue(p) =>
              LET key == get_key(backend, svc[p].phone.chars) IN
              StoredCount(store'[key]) = StoredCount(store[key]) + 1]_vars

StoredFactsOf(b, facts) ==
    [i \in 1..Len(facts) |-> [facts[i] EXCEPT !.extracted_at = StoredDate(b, @)]]

\* C13: two overlapping saves for the same id are resolved by last write
\* wins.  When a save that overlapped with exactly one other save writes, the
\* persisted record is the whole record of that writer (its id, the
\* first_call_date and call_count + 1 of the record it read, its own
\* last_call_date and merged facts), and with c the call_count stored when
\* the first of the two started, the persisted call_count is c+1 or c+2.
C13_LastWriteWins ==
    [][\A p \in Procs :
          (/\ svc[p].pc = "write" /\ svc'[p].pc = "idle"
           /\ svc[p].group = 2
           /\ ret'.value = True /\ ~ret'.faulted)
          => LET me == svc[p]
                 doc == store'[get_key(backend, me.phone.chars)] IN
             /\ Readable(doc)
             /\ doc.phone_number = me.phone.chars
             /\ doc.first_call_date = StoredDate(backend, me.existing.first_call_date)
             /\ doc.last_call_date = StoredDate(backend, now)
             /\ doc.call_count = me.existing.call_count + 1
             /\ doc.facts = StoredFactsOf(backend, merge_facts(me.existing.facts, me.new_facts))
             /\ doc.call_count \in {me.base + 1, me.base + 2}]_vars

\* both of two overlapping saves for a caller with one earlier call returned
\* true, and the persisted call_count is 2: one update was lost
C13_Witness ==
    /\ InFlight = {}
    /\ ret.op = "save" /\ ret.value = True /\ ~ret.faulted /\ ret.overlapped
    /\ events = 3
    /\ \A p \in Procs : svc[p].enabled
    /\ LET doc == store[get_key(backend, ret.phone.chars)] IN
       Readable(doc) /\ doc.call_count = 2 /\ doc.facts = <<>>

\* the step in which a load returns
LoadReturns ==
    /\ ret'.op = "load"
    /\ events' = events + 1
    /\ now' = now
    /\ \A p \in Procs : svc'[p].pc = svc[p].pc

\* extracted_at >= now - retention window, by the calendar
Fresh(extracted_at) ==
    \/ extracted_at.day + TtlDays > now.day
    \/ extracted_at.day + TtlDays = now.day /\ extracted_at.frac >= now.frac

\* C14: the record returned by load contains a stored fact if and only if
\* its extracted_at >= now - 90 days: a fact exactly at the boundary is kept,
\* a strictly older one is excluded, and nothing else is added.
C14_RetentionInclusive ==
    [][(LoadReturns /\ ret'.value # None)
       => LET stored == store[get_key(backend, ret'.phone.chars)].facts
              loaded == ret'.value.facts IN
          /\ \A i \in 1..Len(stored) :
                Fresh(stored[i].extracted_at) <=>
                   \E j \in 1..Len(loaded) :
                      loaded[j] = [stored[i] EXCEPT !.extracted_at = parse_date(@)]
          /\ \A j \in 1..Len(loaded) :
                \E i \in 1..Len(stored) :
                   loaded[j] = [stored[i] EXCEPT !.extracted_at = parse_date(@)]]_vars

\* a load returned a fact extracted exactly 90 days before
C14_Witness ==
    /\ ret.op = "load" /\ ret.value # None
    /\ \E j \in 1..Len(ret.value.facts) :
          /\ ret.value.facts[j].extracted_at.day + TtlDays = now.day
          /\ ret.value.facts[j].extracted_at.frac = now.frac

\* C15: load is read-only: it leaves every persisted record, expired facts
\* included, unchanged.
C15_LoadReadOnly == [][LoadReturns => store' = store]_vars

\* a load returned a record without the expired facts, which are still stored
C15_Witness ==
    /\ ret.op = "load" /\ ret.value # None
    /\ LET doc == store[get_key(backend, ret.phone.chars)] IN
       Readable(doc) /\ Len(ret.value.facts) < Len(doc.facts)

\* C3: load and save never let an error out: load returns None or a record,
\* and None whenever Storage.get failed; save returns a boolean
C3_NoErrorPropagates ==
    /\ ret.op = "load" =>
          /\ ret.value = None \/ ret.value.cls = "CallerMemory"
          /\ ret.faulted => ret.value = None
    /\ ret.op = "save" => ret.value \in {True, False}

\* a save returned false after the model call raised and Storage.save failed
C3_Witness ==
    /\ ret.op = "save" /\ ret.value = False /\ ret.faulted
    /\ ret.outcome = "raised" /\ backend = "sql"

\* C24: save returns true only if the updated record was persisted: when a
\* save returns true, a Storage.get that follows returns the record with
\* the call_count that save computed (one more than the count it read)
C24_TrueOnlyIfPersisted ==
    [][\A p \in Procs :
          (svc[p].pc = "write" /\ svc'[p].pc = "idle" /\ ret'.value = True)
          => LET got == store_get(backend, store', svc[p].phone.chars, "ok") IN
             /\ ~IsRaise(got)
             /\ got # None
             /\ got.cls = "CallerMemory"
             /\ got.call_count = svc[p].existing.call_count + 1]_vars

\* C32: after a successful save for an id the persisted record contains
\* no fact older than the retention window (the save itself taking less
\* than a day from extraction to write)
C32_SavePurgesExpired ==
    [][\A p \in Procs :
          (/\ SaveReturnsTrue(p) /\ ~ret'.faulted
           /\ \A i \in 1..Len(svc[p].new_facts) : svc[p].new_facts[i].extracted_at.day = now.day)
          => LET doc == store'[get_key(backend, svc[p].phone.chars)] IN
             /\ Readable(doc)
             /\ \A i \in 1..Len(doc.facts) : Fresh(doc.facts[i].extracted_at)]_vars

\* the step in which a save writes, no other save having been in progress
\* during it
SaveWrites(p) ==
    /\ svc[p].pc = "write" /\ svc'[p].pc = "idle"
    /\ ~svc[p].overlapped

\* C33: a save whose read of the existing record failed leaves the
\* persisted record of an id that has one unchanged: the record is not
\* replaced by a fresh one, and its call_count does not decrease
C33_ReadFailureKeepsRecord ==
    [][\A p \in Procs :
          LET key == get_key(backend, svc[p].phone.chars) IN
          (SaveWrites(p) /\ svc[p].faulted /\ Readable(store[key]) /\ Readable(store'[key]))
          => /\ store'[key] = store[key]
             /\ store'[key].call_count >= store[key].call_count]_vars

\* the dates of a stored record, in order
DateLe(a, b) == a.day < b.day \/ (a.day = b.day /\ a.frac <= b.frac)

\* C36: across successive successful saves for an id, first_call_date is
\* fixed when the record is created and never changes, last_call_date is
\* the time of each save, does not decrease, and is not before
\* first_call_date
C36_ContactDates ==
    [][\A p \in Procs :
          SaveReturnsTrue(p)
          => LET key == get_key(backend, svc[p].phone.chars)
                 old == store[key]
                 doc == store'[key] IN
             Readable(doc) =>
                /\ Readable(old) => doc.first_call_date = old.first_call_date
                /\ Readable(old) => DateLe(old.last_call_date, doc.last_call_date)
                /\ doc.last_call_date = StoredDate(backend, now)
                /\ DateLe(doc.first_call_date, doc.last_call_date)]_vars

\* the same for the saves whose storage calls all worked
DatesWithWorkingStorage ==
    [][\A p \in Procs :
          (SaveReturnsTrue(p) /\ ~ret'.faulted)
          => LET key == get_key(backend, svc[p].phone.chars)
                 old == store[key]
                 doc == store'[key] IN
             /\ Readable(doc)
             /\ Readable(old) => doc.first_call_date = old.first_call_date
             /\ Readable(old) => DateLe(old.last_call_date, doc.last_call_date)
             /\ doc.last_call_date = StoredDate(backend, now)
             /\ DateLe(doc.first_call_date, doc.last_call_date)]_vars

\* a load or a save returns in this step
CallReturns == events' = events + 1 /\ now' = now /\ ret' # ret

\* C37: when the service is disabled, or neither the argument nor the
\* instance gives a phone number, load returns None and save returns False
\* without a Storage call or a model call: the store and the instances,
\* cached record included, are as before
C37_SkippedCallsTouchNothing ==
    [][/\ (events' = events + 1 /\ now' = now /\ \A p \in Procs : ~svc[p].enabled)
          => /\ store' = store /\ svc' = svc
             /\ ret'.op \in {"load", "save"}
             /\ ret'.value = IF ret'.op = "load" THEN None ELSE False
             /\ ret'.op = "save" => ret'.outcome = "none"
       /\ (CallReturns /\ ret'.phone = None)
          => /\ store' = store /\ svc' = svc
             /\ ret'.value = IF ret'.op = "load" THEN None ELSE False
             /\ ret'.op = "save" => ret'.outcome = "none"]_vars

\* a save without a phone number returned False while the store holds the
\* record another instance saved
C37_Witness ==
    /\ ret.op = "save" /\ ret.phone = None /\ ret.value = False
    /\ store # EmptyStore
    /\ \E p \in Procs : svc[p].loaded_memory # None

(***************************************************************************)
(* ExtractSpec: LLMFactExtractor.extract one model call at a time, for      *)
(* extractors constructed with different max_retries and min_importance.    *)
(***************************************************************************)
\* models that answer with garbage until the last attempt of the default
\* extractor, with nothing forever, and with an importance out of range first
LlmLate ==
    Llm([i \in 1..(MaxRetries - 1) |-> Garbage]
        \o <<Json(<<RawFact(<<"n">>, ValueName, 10)>>)>>)
LlmSilent == Llm(<<Empty>>)
LlmRangeFirst ==
    Llm(<<Json(<<RawFact(<<"n">>, ValueName, 11)>>),
          Json(<<RawFact(<<"n">>, ValueName, 10)>>)>>)

ExtractLlms ==
    << LlmName, LlmFlaky, LlmNothing, LlmBare, LlmRange, LlmGarbage,
       LlmLate, LlmSilent, LlmRangeFirst >>

\* the conversation_history argument
ExtractHistories ==
    << <<>>,
       <<Msg("assistant", TextHi)>>,
       <<Msg("assistant", TextHi), Msg("user", TextBlank)>>,
       <<Msg("user", TextBlank), Msg("assistant", None)>>,
       <<Msg("user", None)>>,
       <<Msg("user", TextHi), Msg("user", None)>>,
       <<Msg("assistant", TextHi), Msg("user", TextHi)>> >>

\* the max_retries and min_importance arguments of the constructor
RetryLimits == {1, 2, 3, MaxRetries}
ImportanceLimits == {ImportanceMin, MinImportance, ImportanceMax}

\* result_text is not empty and _parse_and_validate returns
attempt_succeeds_nonempty(r) ==
    r.kind = "json" /\ schema_valid(r.facts) /\ r.facts # <<>>

attempt_succeeds(r) == r.kind = "json" /\ schema_valid(r.facts)

\* last_error of a failed attempt
attempt_error(r) ==
    CASE r.kind = "empty"   -> "Empty response from LLM"
      [] r.kind = "garbage" -> "JSON parse error"
      [] OTHER              -> "Validation error"

\* `for attempt in range(1, self.max_retries + 1)` with
\* `if attempt < self.max_retries: continue`
may_retry_again(attempt, max_retries) == attempt <= max_retries

may_retry_never(attempt, max_retries) == FALSE

may_retry(attempt, max_retries) == attempt < max_retries

\* prompts.py: build_extraction_prompt, the template chosen and the error
\* message it embeds
Prompt(template, error_message) == [template |-> template, error_message |-> error_message]

\* (a builder that prefers the retry template to the strict one)
build_extraction_prompt_retry_first(is_retry, error_message, is_final_attempt) ==
    IF is_retry /\ error_message # None /\ error_message.chars # ""
    THEN Prompt("RETRY_PROMPT_TEMPLATE", error_message)
    ELSE IF is_final_attempt
    THEN Prompt("STRICT_RETRY_PROMPT_TEMPLATE", None)
    ELSE Prompt("EXTRACTION_PROMPT_TEMPLATE", None)

build_extraction_prompt(is_retry, error_message, is_final_attempt) ==
    IF is_final_attempt
    THEN Prompt("STRICT_RETRY_PROMPT_TEMPLATE", None)
    ELSE IF is_retry /\ error_message # None /\ error_message.chars # ""
    THEN Prompt("RETRY_PROMPT_TEMPLATE", error_message)
    ELSE Prompt("EXTRACTION_PROMPT_TEMPLATE", None)

\* lines 92-100 of extract: the prompt of attempt number `attempt`
attempt_prompt(attempt, max_retries, last_error) ==
    build_extraction_prompt(attempt > 1, last_error, attempt = max_retries)

ExtractInit ==
    /\ \E h \in 1..Len(ExtractHistories), l \in 1..Len(ExtractLlms),
          max_retries \in RetryLimits, min_importance \in ImportanceLimits :
          ex = [pc |-> "called",
                conversation_history |-> ExtractHistories[h],
                llm |-> ExtractLlms[l],
                max_retries |-> max_retries,
                min_importance |-> min_importance,
                attempt |-> 0,
                calls |-> 0,
                last_error |-> None,
                prompts |-> <<>>,
                result |-> None]
    /\ StorageOff
    /\ MergeOff
    /\ StoreOff
    /\ BackendsOff
    /\ ServiceOff
    /\ CallOff
    /\ CacheOff
    /\ FlowOff
    /\ AgentOff
    /\ TrunkOff
    /\ FormatOff

\* extract up to the first model call: the early returns
ExtractCall ==
    /\ ex.pc = "called"
    /\ LET history == ex.conversation_history
           user == has_user_content(history) IN
       IF history = <<>>
       THEN ex' = [ex EXCEPT !.pc = "returned",
                             !.result = ExtractionResult(TRUE, <<>>, 0)]
       ELSE IF user = "raise"
       THEN ex' = [ex EXCEPT !.pc = "returned", !.result = Raise("AttributeError")]
       ELSE IF user = "false" \/ format_conversation(history) = <<>>
       THEN ex' = [ex EXCEPT !.pc = "returned",
                             !.result = ExtractionResult(TRUE, <<>>, 0)]
       ELSE ex' = [ex EXCEPT !.pc = "attempting", !.attempt = 1]
    /\ UNCHANGED <<mg_vars, st_vars, sp_vars, bk_vars, sv_vars, cl_vars, ca_vars, fl_vars, ag_vars, tk_vars, fm_vars>>

\* one iteration of the retry loop: the model call, parsing and validation,
\* and the return that follows a success or the last failure
ExtractAttempt ==
    /\ ex.pc = "attempting"
    /\ LET r == Response(ex.llm, ex.attempt)
           prompt == attempt_prompt(ex.attempt, ex.max_retries, ex.last_error) IN
       IF attempt_succeeds(r)
       THEN ex' = [ex EXCEPT
                !.pc = "returned",
                !.calls = @ + 1,
                !.prompts = Append(@, prompt),
                !.result = ExtractionResult(TRUE,
                               parse_and_validate_with(r.facts, Datetime(0, 0),
                                                       ex.min_importance),
                               ex.attempt)]
       ELSE IF may_retry(ex.attempt, ex.max_retries)
       THEN ex' = [ex EXCEPT !.attempt = @ + 1,
                             !.calls = @ + 1,
                             !.prompts = Append(@, prompt),
                             !.last_error = Str(attempt_error(r))]
       ELSE ex' = [ex EXCEPT !.pc = "returned",
                             !.calls = @ + 1,
                             !.prompts = Append(@, prompt),
                             !.last_error = Str(attempt_error(r)),
                             !.result = ExtractionResult(FALSE, <<>>, ex.attempt)]
    /\ UNCHANGED <<mg_vars, st_vars, sp_vars, bk_vars, sv_vars, cl_vars, ca_vars, fl_vars, ag_vars, tk_vars, fm_vars>>

ExtractNext ==
    \/ ExtractCall
    \/ ExtractAttempt

ExtractSpec == ExtractInit /\ [][ExtractNext]_vars

\* the extract call has returned an ExtractionResult
Returned == ex.pc = "returned" /\ ~IsRaise(ex.result)

\* an answer that does not parse or does not validate
Unparsable(r) == r.kind # "json" \/ ~schema_valid(r.facts)

\* no message with the caller's role has text
NoCallerText(history) ==
    \A i \in 1..Len(history) :
        history[i].role = "user" =>
            \/ history[i].content = None
            \/ strip(history[i].content.chars) = <<>>

\* the stepwise extract returns what the recursive one computes
ExtractAgrees ==
    (ex.pc = "returned" /\ ex.max_retries = MaxRetries
        /\ ex.min_importance = MinImportance)
    => ex.result = extract(ex.conversation_history, ex.llm, Datetime(0, 0))

\* C16: with a caller utterance in the transcript and a model whose every
\* answer is unparsable, extract makes exactly max_retries attempts and then
\* returns success = false
C16_ExactlyMaxRetries ==
    /\ (ex.pc = "attempting"
          /\ \A i \in 1..Len(ex.llm.script) : Unparsable(ex.llm.script[i]))
       => ex.calls = ex.attempt - 1 /\ ex.attempt <= ex.max_retries
    /\ (ex.pc = "returned" /\ ex.calls > 0
          /\ \A i \in 1..Len(ex.llm.script) : Unparsable(ex.llm.script[i]))
       => /\ Returned
          /\ ~ex.result.success
          /\ ex.result.facts = <<>>
          /\ ex.calls = ex.max_retries

C16_Witness ==
    /\ Returned /\ ~ex.result.success
    /\ ex.llm = LlmGarbage
    /\ ex.max_retries = MaxRetries /\ ex.calls = MaxRetries

\* C17: the first attempt is attempt 1; attempt n is followed by attempt
\* n + 1 only when attempt n failed and n < max_retries; the failure result
\* is returned only from attempt max_retries; nothing follows a return; the
\* number of attempts never exceeds max_retries
C17_RetryStateMachine ==
    [][/\ (ex.pc = "called" /\ ex'.pc = "attempting")
          => ex'.attempt = 1 /\ ex'.calls = 0
       /\ (ex.pc = "attempting" /\ ex'.pc = "attempting")
          => /\ ex'.attempt = ex.attempt + 1
             /\ ex.attempt < ex.max_retries
             /\ Unparsable(Response(ex.llm, ex.attempt))
       /\ (ex'.pc = "returned" /\ ex.pc # "returned"
             /\ ~IsRaise(ex'.result) /\ ~ex'.result.success)
          => /\ ex.pc = "attempting"
             /\ ex.attempt = ex.max_retries
             /\ Unparsable(Response(ex.llm, ex.attempt))
       /\ ex.pc = "returned" => ex' = ex
       /\ ex'.pc = "attempting" => ex'.attempt \in 1..ex'.max_retries
       /\ ex'.calls <= ex'.max_retries]_vars

C17_Witness ==
    /\ Returned /\ ~ex.result.success
    /\ ex.llm = LlmFlaky
    /\ ex.max_retries = 2 /\ ex.attempt = 2 /\ ex.calls = 2

\* C18: an attempt whose answer parses and validates returns success = true
\* from that attempt, without another model call, also when the list of
\* facts is empty or every fact was filtered out; a valid empty list gives
\* facts = []
C18_SuccessStops ==
    [][(ex.pc = "attempting" /\ ~Unparsable(Response(ex.llm, ex.attempt)))
       => /\ ex'.pc = "returned"
          /\ ~IsRaise(ex'.result)
          /\ ex'.result.success
          /\ ex'.result.attempts = ex.attempt
          /\ ex'.calls = ex.attempt
          /\ Response(ex.llm, ex.attempt).facts = <<>> => ex'.result.facts = <<>>]_vars

C18_Witness ==
    /\ Returned /\ ex.result.success
    /\ ex.result.facts = <<>>
    /\ ex.calls = 1
    /\ Response(ex.llm, 1).facts # <<>>

\* C19: when the transcript is empty or no message with the caller's role
\* has non-empty text, extract returns success = true with facts = [] and
\* the model is never called
C19_NoCallerTextNoCall ==
    /\ ex.pc = "attempting" => ~NoCallerText(ex.conversation_history)
    /\ (ex.pc = "returned" /\ NoCallerText(ex.conversation_history))
       => /\ ~IsRaise(ex.result)
          /\ ex.result.success
          /\ ex.result.facts = <<>>
          /\ ex.calls = 0

\* C20: every fact of a successful ExtractionResult has an importance of at
\* least the extractor's min_importance and at most 10
C20_ImportanceAtLeastMinimum ==
    (Returned /\ ex.result.success)
    => \A i \in 1..Len(ex.result.facts) :
          ex.result.facts[i].importance \in ex.min_importance..ImportanceMax

C20_Witness ==
    /\ Returned /\ ex.result.success
    /\ ex.min_importance = ImportanceMax
    /\ ex.result.facts # <<>>
    /\ \E i \in 1..Len(Response(ex.llm, ex.calls).facts) :
          LET f == Response(ex.llm, ex.calls).facts[i] IN
          f.importance < ex.min_importance /\ has_sufficient_context(f)

\* the prompt of attempt i, when it is a retry, was built after attempt i - 1
\* had failed and there is one prompt per model call
BuiltAfterFailure ==
    /\ Len(ex.prompts) = ex.calls
    /\ \A i \in 2..Len(ex.prompts) : Unparsable(Response(ex.llm, i - 1))

\* C30 as stated: for every max_retries, attempt 1 uses the base prompt,
\* attempt 2 the retry prompt with the error of attempt 1, attempt
\* max_retries the strict template, each built after the previous failure
C30_PromptEscalation ==
    ex.pc \in {"attempting", "returned"} =>
        /\ BuiltAfterFailure
        /\ \A i \in 1..Len(ex.prompts) :
              /\ i = 1 => ex.prompts[i].template = "EXTRACTION_PROMPT_TEMPLATE"
              /\ i = 2 =>
                    ex.prompts[i] = Prompt("RETRY_PROMPT_TEMPLATE",
                                           Str(attempt_error(Response(ex.llm, 1))))
              /\ i = ex.max_retries =>
                    ex.prompts[i].template = "STRICT_RETRY_PROMPT_TEMPLATE"

\* C30 amended: the last permitted attempt always uses the strict template;
\* attempt 1 uses the base prompt when it is not the last; every attempt
\* between them uses the retry prompt with the error of the attempt before
\* it; each retry's prompt is built after the previous attempt failed
C30_FinalAttemptFirst ==
    ex.pc \in {"attempting", "returned"} =>
        /\ BuiltAfterFailure
        /\ \A i \in 1..Len(ex.prompts) :
              /\ i = ex.max_retries =>
                    ex.prompts[i] = Prompt("STRICT_RETRY_PROMPT_TEMPLATE", None)
              /\ (i = 1 /\ i < ex.max_retries) =>
                    ex.prompts[i] = Prompt("EXTRACTION_PROMPT_TEMPLATE", None)
              /\ (i > 1 /\ i < ex.max_retries) =>
                    ex.prompts[i] = Prompt("RETRY_PROMPT_TEMPLATE",
                                           Str(attempt_error(Response(ex.llm, i - 1))))

C30_Witness ==
    /\ Returned /\ ex.max_retries = 3 /\ Len(ex.prompts) = 3
    /\ ex.prompts[1].template = "EXTRACTION_PROMPT_TEMPLATE"
    /\ ex.prompts[2].template = "RETRY_PROMPT_TEMPLATE"
    /\ ex.prompts[3].template = "STRICT_RETRY_PROMPT_TEMPLATE"

(***************************************************************************)
(* MemoryEnricher (memory/enrichment.py).  A text is the sequence of its   *)
(* pieces, each a character or a fixed string; "" is the empty sequence.   *)
(***************************************************************************)
MaxFactsInPrompt == 10
MaxSummaries == 2
MaxActions == 3
MaxPersonal == 3
MaxAppointments == 3
MaxOther == 5
ValueDisplayMax == 100
ValueDisplayKeep == 97
LowerCase ==
    <<"a", "b", "c", "d", "e", "f", "g", "h", "i", "j", "k", "l", "m", "n", "o", "p", "q", "r", "s", "t", "u", "v", "w", "x", "y", "z">>
UpperCase ==
    <<"A", "B", "C", "D", "E", "F", "G", "H", "I", "J", "K", "L", "M", "N", "O", "P", "Q", "R", "S", "T", "U", "V", "W", "X", "Y", "Z">>

Letters == 1..Len(LowerCase)

is_cased(c) == \E i \in Letters : c = LowerCase[i] \/ c = UpperCase[i]

to_upper(c) ==
    IF \E i \in Letters : c = LowerCase[i]
    THEN UpperCase[CHOOSE i \in Letters : c = LowerCase[i]]
    ELSE c

to_lower(c) ==
    IF \E i \in Letters : c = UpperCase[i]
    THEN LowerCase[CHOOSE i \in Letters : c = UpperCase[i]]
    ELSE c

\* str.title(): a cased character is upper case after an uncased one and
\* lower case after a cased one
title(s) ==
    [i \in 1..Len(s) |->
        IF i > 1 /\ is_cased(s[i - 1]) THEN to_lower(s[i]) ELSE to_upper(s[i])]

\* fact.key.replace("_", " ").title()
key_display(key) == title(str_replace(key, "_", " "))

\* the keys the enricher knows
KeyCallSummary == <<"c", "a", "l", "l", "_", "s", "u", "m", "m", "a", "r", "y">>
KeyConversationSummary == <<"c", "o", "n", "v", "e", "r", "s", "a", "t", "i", "o", "n", "_", "s", "u", "m", "m", "a", "r", "y">>
KeyNextAction == <<"n", "e", "x", "t", "_", "a", "c", "t", "i", "o", "n">>
KeyFollowUpNeeded == <<"f", "o", "l", "l", "o", "w", "_", "u", "p", "_", "n", "e", "e", "d", "e", "d">>
KeyIncompleteTask == <<"i", "n", "c", "o", "m", "p", "l", "e", "t", "e", "_", "t", "a", "s", "k">>
KeyUserName == <<"u", "s", "e", "r", "_", "n", "a", "m", "e">>
KeyContactNumber == <<"c", "o", "n", "t", "a", "c", "t", "_", "n", "u", "m", "b", "e", "r">>
KeyEmail == <<"e", "m", "a", "i", "l">>
KeyAppointmentTime == <<"a", "p", "p", "o", "i", "n", "t", "m", "e", "n", "t", "_", "t", "i", "m", "e">>
KeyCity == <<"c", "i", "t", "y">>
Appointment == <<"a", "p", "p", "o", "i", "n", "t", "m", "e", "n", "t">>
Schedule == <<"s", "c", "h", "e", "d", "u", "l", "e">>

SummaryKeys == {KeyCallSummary, KeyConversationSummary}
ActionKeys == {KeyNextAction, KeyFollowUpNeeded, KeyIncompleteTask}
PersonalKeys == {KeyUserName, KeyContactNumber, KeyEmail}

\* 'appointment' in f.key or 'schedule' in f.key
is_appointment(key) == contains(key, Appointment) \/ contains(key, Schedule)

\* (a slice that keeps the whole list)
take_all(s, n) == s

\* s[:n]
take(s, n) == SubSeq(s, 1, Min(Len(s), n))

\* sep.join(lines)
RECURSIVE join(_, _)
join(lines, sep) ==
    IF lines = <<>> THEN <<>>
    ELSE IF Len(lines) = 1 THEN lines[1]
    ELSE lines[1] \o <<sep>> \o join(Tail(lines), sep)

\* models.py: MemoryContext; last_call_date and the texts are str values
MemoryContext(has_history, call_count, last_call_date, formatted_facts, full_context) ==
    [cls |-> "MemoryContext", has_history |-> has_history, call_count |-> call_count,
     last_call_date |-> last_call_date, formatted_facts |-> formatted_facts,
     full_context |-> full_context]

\* MemoryContext()
EmptyContext == MemoryContext(FALSE, 0, None, <<>>, <<>>)

\* memory.last_call_date.strftime("%B %d, %Y"): the calendar day, without the
\* time of day; "" when the call fails
strftime(dt) ==
    IF dt.ty = "datetime" THEN <<"%B %d, %Y of day ", ToString(dt.day)>> ELSE <<>>

\* (an enricher that returns the empty context only for a record without facts)
has_no_history_facts_only(memory) == memory = None \/ memory.facts = <<>>

\* lines 20-32 of format: the cases that return MemoryContext()
has_no_history(memory) ==
    memory = None \/ memory.call_count < 1 \/ memory.facts = <<>>

\* (sorting with memory.facts.sort(...): the list of the record is reordered)
facts_after_sort_in_place(facts) == sorted_by_importance(facts)

\* memory.facts after sorted(memory.facts, ...): sorted() returns a new list
facts_after_sort(facts) == facts

\* f"  <bullet> {key_display}: {fact.value}", the bullet being U+2022
bullet(fact) == <<"  <bullet> ">> \o key_display(fact.key) \o <<": ">> \o fact.value

\* the same with a value of more than 100 characters cut to 97 and "..."
other_bullet(fact) ==
    LET value == IF Len(fact.value) > ValueDisplayMax
                 THEN SubSeq(fact.value, 1, ValueDisplayKeep) \o <<"...">>
                 ELSE fact.value
    IN  <<"  <bullet> ">> \o key_display(fact.key) \o <<": ">> \o value

\* one section of the context: its title, its lines and an empty line, or
\* nothing when there are no lines
section(heading, lines) ==
    IF lines = <<>> THEN <<>> ELSE << <<heading>> >> \o lines \o << <<>> >>

\* lines 34-131 of format: the context of a record with history
build_context(memory) ==
    LET last_call_str == strftime(memory.last_call_date)
        sorted_facts == sorted_by_importance(memory.facts)
        top_facts == take(sorted_facts, MaxFactsInPrompt)
        summary_facts == SelectSeq(top_facts, LAMBDA f : f.key \in SummaryKeys)
        action_facts == SelectSeq(top_facts, LAMBDA f : f.key \in ActionKeys)
        personal_facts == SelectSeq(top_facts, LAMBDA f : f.key \in PersonalKeys)
        appointment_facts == SelectSeq(top_facts, LAMBDA f : is_appointment(f.key))
        other_facts == SelectSeq(top_facts, LAMBDA f :
                          /\ f.key \notin SummaryKeys \cup ActionKeys \cup PersonalKeys
                          /\ ~is_appointment(f.key))
        lines(facts, n) == [i \in 1..Min(Len(facts), n) |-> bullet(facts[i])]
        header == << <<"---">>, <<"Previous Conversation Context:">>, <<>> >>
        calls ==
            IF memory.call_count > 1
            THEN << IF last_call_str # <<>>
                    THEN <<"This user has called ", ToString(memory.call_count),
                           " times previously. Last call was on ">>
                         \o last_call_str \o <<".">>
                    ELSE <<"This user has called ", ToString(memory.call_count),
                           " times previously.">>,
                    <<>> >>
            ELSE <<>>
        sections ==
            header \o calls
            \o section("SUMMARY:",
                   [i \in 1..Min(Len(summary_facts), MaxSummaries) |->
                       <<"  ">> \o summary_facts[i].value])
            \o section("NEXT ACTIONS / FOLLOW-UPS:", lines(action_facts, MaxActions))
            \o section("PERSONAL INFO:", lines(personal_facts, MaxPersonal))
            \o section("APPOINTMENTS:", lines(appointment_facts, MaxAppointments))
            \o section("OTHER KEY DETAILS:",
                   [i \in 1..Min(Len(other_facts), MaxOther) |-> other_bullet(other_facts[i])])
        formatted_facts_lines ==
            [i \in 1..Len(top_facts) |->
                <<"- ">> \o key_display(top_facts[i].key) \o <<": ">> \o top_facts[i].value]
    IN  MemoryContext(TRUE, memory.call_count, Str(last_call_str),
                      join(formatted_facts_lines, "\n"), join(sections, "\n"))

\* MemoryEnricher.format: the context returned, and the record passed as it
\* is after the call
format(memory) ==
    IF has_no_history(memory)
    THEN [context |-> EmptyContext, memory |-> memory]
    ELSE [context |-> build_context(memory),
          memory |-> [memory EXCEPT !.facts = facts_after_sort(@)]]

\* agent/internal_prompts/memory_aware.py and the indentation of the f-string
memory_aware_prompt == "memory_aware_prompt"
Indent == "                "

\* (an enricher that puts the context before the usage guidance)
enhanced_context_first(base_instructions, full_context) ==
    base_instructions \o <<"\n\n", Indent>> \o full_context
    \o <<"\n\n", Indent, memory_aware_prompt, "\n", Indent>>

\* lines 152-157 of enhance_instructions: the f-string
enhanced(base_instructions, full_context) ==
    base_instructions \o <<"\n\n", Indent, memory_aware_prompt, "\n\n", Indent>>
    \o full_context \o <<"\n", Indent>>

\* MemoryEnricher.enhance_instructions: the text returned, the context it was
\* built from, and the record passed as it is after the call
enhance_instructions(base_instructions, memory) ==
    LET formatted == format(memory) IN
    [value |-> IF formatted.context.full_context = <<>> THEN base_instructions
               ELSE enhanced(base_instructions, formatted.context.full_context),
     context |-> formatted.context,
     memory |-> formatted.memory]

(***************************************************************************)
(* CallSpec: one MemoryService, constructed for the id "+1", over          *)
(* successive calls.  At the start of a call the agent loads the record    *)
(* and enriches its instructions; at the end it saves the transcript.      *)
(* Storage.get may fail during a load; the saves run one after another     *)
(* with working storage.                                                   *)
(***************************************************************************)
MaxOps == 4

CallPhone == <<"+", "1">>
CallNow == Datetime(0, 1)

ValueSamuel == <<"S", "a", "m", "u", "e", "l">>
Value2pm == <<"2", "p", "m">>
ValueSamuelName == <<"S", "a", "m", "u", "e", "l", " ", "(", "n", "a", "m", "e", ")">>
ValueLong == [i \in 1..(ValueDisplayMax + 1) |-> "x"]

\* models that answer as in the two-call scenario, and with the same facts
\* told with context
LlmSam == Llm(<<Json(<<RawFact(KeyUserName, ValueSam, 10)>>)>>)
LlmSamuel ==
    Llm(<<Json(<<RawFact(KeyUserName, ValueSamuel, 10),
                 RawFact(KeyAppointmentTime, Value2pm, 9)>>)>>)
LlmSamContext == Llm(<<Json(<<RawFact(KeyUserName, ValueName, 10)>>)>>)
LlmSamuelContext ==
    Llm(<<Json(<<RawFact(KeyUserName, ValueSamuelName, 10),
                 RawFact(KeyAppointmentTime, ValueTime, 9)>>)>>)

\* the transcript and the model of each successive save; the last one is
\* used again by later saves
ScriptAgentOnly == << Conversation(List(<<Msg("assistant", TextHi)>>), LlmName) >>
ScriptSam == << Conversation(UserSaidHi, LlmSam), Conversation(UserSaidHi, LlmSamuel) >>
ScriptContext ==
    << Conversation(UserSaidHi, LlmSamContext), Conversation(UserSaidHi, LlmSamuelContext) >>
Scripts == <<ScriptAgentOnly, ScriptSam, ScriptContext>>

\* records passed explicitly to enhance_instructions / format_memory_for_prompt
RecZeroCalls ==
    CallerMemory(CallPhone, CallNow, CallNow, 0,
                 <<Fact(KeyUserName, ValueName, 10, CallNow, "llm")>>)
RecNoFacts == CallerMemory(CallPhone, CallNow, CallNow, 1, <<>>)
RecUnsorted ==
    CallerMemory(CallPhone, CallNow, CallNow, 1,
                 <<Fact(KeyCity, ValueLong, 5, CallNow, "llm"),
                   Fact(KeyUserName, ValueName, 10, CallNow, "llm")>>)
RecMany ==
    CallerMemory(CallPhone, CallNow, CallNow, 2,
                 <<Fact(KeyCity, ValueTime, 1, CallNow, "llm"),
                   Fact(KeyCallSummary, ValueName, 10, CallNow, "llm"),
                   Fact(KeyConversationSummary, ValueTime, 9, CallNow, "llm"),
                   Fact(KeyNextAction, ValueTime, 8, CallNow, "llm"),
                   Fact(KeyFollowUpNeeded, ValueName, 8, CallNow, "llm"),
                   Fact(KeyIncompleteTask, ValueTime, 7, CallNow, "llm"),
                   Fact(KeyUserName, ValueSamuelName, 10, CallNow, "llm"),
                   Fact(KeyContactNumber, ValueTime, 6, CallNow, "llm"),
                   Fact(KeyEmail, ValueName, 6, CallNow, "llm"),
                   Fact(KeyAppointmentTime, ValueTime, 9, CallNow, "llm"),
                   Fact(<<"n">>, ValueLong, 5, CallNow, "llm"),
                   Fact(<<"t">>, ValueTime, 2, CallNow, "llm")>>)
RecordArgs == <<None, RecZeroCalls, RecNoFacts, RecUnsorted, RecMany>>

\* base instructions
Bases == << <<>>, <<"You are a receptionist.">> >>

\* the phone_number argument of load
LoadArgs == <<None, Str(<<"2">>)>>

CallInit ==
    /\ \E b \in Backends, s \in 1..Len(Scripts) :
          cl = [op |-> "none", backend |-> b, store |-> EmptyStore,
                phone_number |-> Str(CallPhone), loaded_memory |-> None,
                last_load |-> "never", script |-> s, saves |-> 0,
                llm_calls |-> 0, ops |-> 0, out |-> None]
    /\ StorageOff
    /\ MergeOff
    /\ StoreOff
    /\ BackendsOff
    /\ ExtractOff
    /\ ServiceOff
    /\ CacheOff
    /\ FlowOff
    /\ AgentOff
    /\ TrunkOff
    /\ FormatOff

\* MemoryService.load
CallLoad(phone_number, fault) ==
    LET phone == IF phone_number # None THEN phone_number ELSE cl.phone_number
        memory == handle_exception(
                      load_body(cl.backend, cl.store, phone, fault, CallNow), None)
    IN
    /\ cl.op # "off"
    /\ cl.ops < MaxOps
    /\ cl' = [cl EXCEPT !.op = "load", !.ops = @ + 1,
                        !.loaded_memory = IF memory = None THEN @ ELSE memory,
                        !.last_load = IF memory = None THEN "none" ELSE "record",
                        !.out = [phone |-> phone, fault |-> fault, value |-> memory]]
    /\ UNCHANGED <<mg_vars, st_vars, sp_vars, bk_vars, ex_vars, ca_vars, fl_vars, ag_vars, tk_vars, fm_vars, sv_vars>>

\* the number of attempts the extraction of a save makes
model_calls(history, llm, clock) ==
    IF history # None /\ history.items # <<>> /\ llm # None
    THEN LET result == extract(history.items, llm, clock) IN
         IF IsRaise(result) THEN 0 ELSE result.attempts
    ELSE 0

\* MemoryService.save, start to return
CallSave ==
    LET conv == Scripts[cl.script][Min(cl.saves + 1, Len(Scripts[cl.script]))]
        existing == save_existing(cl.backend, cl.store, cl.phone_number, "ok", CallNow)
        extracted == save_new_facts(conv.history, conv.llm, CallNow)
        memory == save_memory(cl.phone_number, existing, extracted.facts, CallNow)
        written == IF IsRaise(existing) THEN [ret |-> existing, store |-> cl.store]
                   ELSE store_save(cl.backend, cl.store, CallPhone, memory, "ok")
        value == handle_exception(IF IsRaise(written.ret) THEN written.ret ELSE True, False)
    IN
    /\ cl.op # "off"
    /\ cl.ops < MaxOps
    /\ cl' = [cl EXCEPT !.op = "save", !.ops = @ + 1, !.saves = @ + 1,
                        !.store = written.store,
                        !.llm_calls = @ + IF IsRaise(existing) THEN 0
                                          ELSE model_calls(conv.history, conv.llm, CallNow),
                        !.out = [value |-> value]]
    /\ UNCHANGED <<mg_vars, st_vars, sp_vars, bk_vars, ex_vars, ca_vars, fl_vars, ag_vars, tk_vars, fm_vars, sv_vars>>

\* MemoryService.enhance_instructions: `memory or self._loaded_memory` is the
\* cached object itself when no record is passed
CallEnhance(base_instructions, memory) ==
    LET mem == IF memory # None THEN memory ELSE cl.loaded_memory IN
    /\ cl.op # "off"
    /\ cl.ops < MaxOps
    /\ \E r \in {enhance_instructions(base_instructions, mem)} :
       cl' = [cl EXCEPT !.op = "enhance", !.ops = @ + 1,
                        !.loaded_memory = IF memory = None THEN r.memory ELSE @,
                        !.out = [base |-> base_instructions, memory |-> memory,
                                 mem |-> mem, after |-> r.memory,
                                 context |-> r.context, value |-> Str(r.value)]]
    /\ UNCHANGED <<mg_vars, st_vars, sp_vars, bk_vars, ex_vars, ca_vars, fl_vars, ag_vars, tk_vars, fm_vars, sv_vars>>

\* MemoryService.format_memory_for_prompt
CallFormat(memory) ==
    LET mem == IF memory # None THEN memory ELSE cl.loaded_memory IN
    /\ cl.op # "off"
    /\ cl.ops < MaxOps
    /\ \E r \in {format(mem)} :
       cl' = [cl EXCEPT !.op = "format", !.ops = @ + 1,
                        !.loaded_memory = IF memory = None THEN r.memory ELSE @,
                        !.out = [memory |-> memory, mem |-> mem, after |-> r.memory,
                                 context |-> r.context,
                                 value |-> Str(r.context.full_context)]]
    /\ UNCHANGED <<mg_vars, st_vars, sp_vars, bk_vars, ex_vars, ca_vars, fl_vars, ag_vars, tk_vars, fm_vars, sv_vars>>

CallNext ==
    \/ \E a \in 1..Len(LoadArgs), fault \in GetFaults : CallLoad(LoadArgs[a], fault)
    \/ CallSave
    \/ \E b \in 1..Len(Bases), r \in 1..Len(RecordArgs) : CallEnhance(Bases[b], RecordArgs[r])
    \/ \E r \in 1..Len(RecordArgs) : CallFormat(RecordArgs[r])

CallSpec == CallInit /\ [][CallNext]_vars

\* C21: format returns the empty context exactly when the record is
\* missing, its call_count is below 1 or it has no facts; otherwise the
\* context has has_history = true, the record's call_count and a text
C21_EmptyContextIff ==
    cl.op \in {"enhance", "format"} =>
        LET mem == cl.out.mem
            context == cl.out.context
        IN
        /\ context = EmptyContext
           <=> (mem = None \/ mem.call_count < 1 \/ mem.facts = <<>>)
        /\ context = EmptyContext
           \/ (/\ context.has_history
               /\ context.call_count = mem.call_count
               /\ context.full_context # <<>>)

C21_Witness ==
    /\ cl.op = "format"
    /\ cl.out.mem # None
    /\ cl.out.mem.call_count = 0
    /\ cl.out.mem.facts # <<>>
    /\ cl.out.context = EmptyContext

\* pieces that hold only line breaks and spaces
IsBlank(piece) == piece \in {"\n", "\n\n", Indent}
NonBlank(text) == SelectSeq(text, LAMBDA piece : ~IsBlank(piece))
IsPrefix(s, t) == Len(s) <= Len(t) /\ SubSeq(t, 1, Len(s)) = s

\* C22: enhance_instructions returns base unchanged when the formatted
\* context is empty; otherwise the text begins with base, and what follows
\* is, between blank pieces, the usage guidance and then the rendered context
C22_EnhanceOrder ==
    cl.op = "enhance" =>
        LET base == cl.out.base
            context == cl.out.context.full_context
            value == cl.out.value.chars
        IN
        IF context = <<>> THEN value = base
        ELSE /\ IsPrefix(base, value)
             /\ NonBlank(SubSeq(value, Len(base) + 1, Len(value)))
                = <<memory_aware_prompt>> \o NonBlank(context)

C22_Witness ==
    /\ cl.op = "enhance"
    /\ cl.out.memory = None
    /\ cl.out.base # <<>>
    /\ cl.out.context.full_context # <<>>
    /\ cl.out.value.chars # cl.out.base

\* C23: after a load that returned None, enhance_instructions(base) and
\* format_memory_for_prompt() called without a record return base and ""
C23_NoHistoryAfterFailedLoad ==
    (cl.op \in {"enhance", "format"} /\ cl.last_load = "none" /\ cl.out.memory = None)
    => /\ cl.op = "enhance" => cl.out.value.chars = cl.out.base
       /\ cl.op = "format" => cl.out.value.chars = <<>>

\* C25: enhance_instructions and format_memory_for_prompt leave the store,
\* the cached record, the passed record and the count of model calls as they
\* were, return a text, and return the same text for the same inputs
C25_PureTransforms ==
    [][(cl'.op \in {"enhance", "format"} /\ cl'.ops = cl.ops + 1)
       => /\ cl'.store = cl.store
          /\ cl'.loaded_memory = cl.loaded_memory
          /\ cl'.llm_calls = cl.llm_calls
          /\ cl'.saves = cl.saves
          /\ cl'.out.after = cl'.out.mem
          /\ cl'.out.value.cls = "str"
          /\ (/\ cl.op = cl'.op
              /\ cl.out.mem = cl'.out.mem
              /\ cl.op = "enhance" => cl.out.base = cl'.out.base)
             => cl'.out.value = cl.out.value]_vars

C25_Witness ==
    /\ cl.op = "format"
    /\ cl.loaded_memory # None
    /\ cl.out.mem = RecUnsorted
    /\ cl.out.after = RecUnsorted
    /\ cl.out.context.full_context # <<>>

\* the record stored for the id of the service
CallDoc == cl.store[get_key(cl.backend, CallPhone)]

\* C26: after the first save for a new id, with a transcript of non-caller
\* lines only, a record exists with call_count = 1 and facts = [], and the
\* model was not called
C26_FirstCallAgentOnly ==
    (cl.op # "off" /\ Scripts[cl.script] = ScriptAgentOnly /\ cl.saves = 1)
    => /\ Readable(CallDoc)
       /\ CallDoc.call_count = 1
       /\ CallDoc.facts = <<>>
       /\ cl.llm_calls = 0

\* C27: after call 1 whose model answer is {user_name: "Sam", 10} and call
\* 2 whose answer is {user_name: "Samuel", 10}, {appointment_time: "2pm", 9},
\* the stored facts are user_name = "Samuel" and appointment_time = "2pm" and
\* call_count is 2
C27_TwoCallScenario ==
    (cl.op # "off" /\ Scripts[cl.script] = ScriptSam /\ cl.saves = 2)
    => /\ Readable(CallDoc)
       /\ CallDoc.call_count = 2
       /\ Len(CallDoc.facts) = 2
       /\ {<<CallDoc.facts[i].key, CallDoc.facts[i].value>> : i \in 1..Len(CallDoc.facts)}
          = {<<KeyUserName, ValueSamuel>>, <<KeyAppointmentTime, Value2pm>>}

\* the same two calls with values told with context, on a backend that
\* stores what it is given
ScenarioWithContext ==
    (cl.op # "off" /\ Scripts[cl.script] = ScriptContext /\ cl.saves = 2
        /\ cl.backend # "s3")
    => /\ Readable(CallDoc)
       /\ CallDoc.call_count = 2
       /\ Len(CallDoc.facts) = 2
       /\ {<<CallDoc.facts[i].key, CallDoc.facts[i].value>> : i \in 1..Len(CallDoc.facts)}
          = {<<KeyUserName, ValueSamuelName>>, <<KeyAppointmentTime, ValueTime>>}

\* the first call with non-caller lines only, on such a backend
FirstCallStored ==
    (cl.op # "off" /\ Scripts[cl.script] = ScriptAgentOnly /\ cl.saves = 1
        /\ cl.backend # "s3")
    => /\ Readable(CallDoc)
       /\ CallDoc.call_count = 1
       /\ CallDoc.facts = <<>>
       /\ cl.llm_calls = 0

(***************************************************************************)
(* FormatSpec: MemoryEnricher.format applied to records whose facts fill   *)
(* the five buckets to different degrees.                                  *)
(***************************************************************************)
Digits == <<"1", "2", "3", "4", "5", "6", "7", "8", "9">>
Buckets == <<"summary", "action", "personal", "appointment", "other">>

\* the keys of the facts of one bucket, in turn
BucketKeys(bucket) ==
    CASE bucket = "summary" -> <<KeyCallSummary, KeyConversationSummary>>
      [] bucket = "action" -> <<KeyNextAction, KeyFollowUpNeeded, KeyIncompleteTask>>
      [] bucket = "personal" -> <<KeyUserName, KeyContactNumber, KeyEmail>>
      [] bucket = "appointment" ->
             <<KeyAppointmentTime, Schedule, <<"n", "e", "x", "t", "_">> \o Appointment>>
      [] OTHER -> <<KeyCity, <<"n">>, <<"t">>>>

\* a record shape: how many facts each bucket gets, which bucket holds a
\* value of more than 100 characters, and whether importance falls or rises
\* along the list
BucketCap(bucket) ==
    CASE bucket = "summary" -> MaxSummaries
      [] bucket = "action" -> MaxActions
      [] bucket = "personal" -> MaxPersonal
      [] bucket = "appointment" -> MaxAppointments
      [] OTHER -> MaxOther

Shapes ==
    [count : [1..Len(Buckets) -> {"none", "one", "many"}], long : 0..Len(Buckets),
     rising : BOOLEAN]

\* the number of facts of bucket b in a shape: none, one, or one more than
\* its cap
ShapeCount(shape, b) ==
    CASE shape.count[b] = "none" -> 0
      [] shape.count[b] = "one" -> 1
      [] OTHER -> BucketCap(Buckets[b]) + 1

\* the bucket and the index in it of the n-th fact of a shape
RECURSIVE Locate(_, _, _)
Locate(shape, n, b) ==
    IF n <= ShapeCount(shape, b) THEN <<b, n>>
    ELSE Locate(shape, n - ShapeCount(shape, b), b + 1)

RECURSIVE ShapeTotal(_, _)
ShapeTotal(shape, b) ==
    IF b > Len(Buckets) THEN 0 ELSE ShapeCount(shape, b) + ShapeTotal(shape, b + 1)

ShapeFacts(shape) ==
    LET total == ShapeTotal(shape, 1) IN
    [n \in 1..total |->
        LET at == Locate(shape, n, 1)
            keys == BucketKeys(Buckets[at[1]])
            rank == IF shape.rising THEN total + 1 - n ELSE n
        IN Fact(keys[((at[2] - 1) % Len(keys)) + 1],
                IF shape.long = at[1] /\ at[2] = 1 THEN ValueLong
                ELSE <<"v", Digits[at[1]], Digits[at[2]]>>,
                IF ImportanceMax - ((rank - 1) \div 3) < ImportanceMin THEN ImportanceMin
                ELSE ImportanceMax - ((rank - 1) \div 3),
                CallNow, "llm")]

FormatInit ==
    /\ \E shape \in Shapes :
          fm = [pc |-> "input",
                memory |-> CallerMemory(CallPhone, CallNow, CallNow, 2, ShapeFacts(shape)),
                context |-> EmptyContext]
    /\ StorageOff
    /\ MergeOff
    /\ StoreOff
    /\ BackendsOff
    /\ ExtractOff
    /\ CallOff
    /\ CacheOff
    /\ FlowOff
    /\ AgentOff
    /\ TrunkOff
    /\ ServiceOff

\* MemoryEnricher.format
Format ==
    /\ fm.pc = "input"
    /\ \E r \in {format(fm.memory)} :
          fm' = [fm EXCEPT !.pc = "formatted", !.memory = r.memory, !.context = r.context]
    /\ UNCHANGED <<mg_vars, st_vars, sp_vars, bk_vars, ex_vars, cl_vars, ca_vars, fl_vars, ag_vars, tk_vars, sv_vars>>

FormatNext == Format

FormatSpec == FormatInit /\ [][FormatNext]_vars

\* the lines of a text
RECURSIVE SplitLines(_)
SplitLines(text) ==
    IF \A i \in 1..Len(text) : text[i] # "\n" THEN <<text>>
    ELSE LET i == CHOOSE k \in 1..Len(text) :
                     text[k] = "\n" /\ \A j \in 1..(k - 1) : text[j] # "\n"
         IN  <<SubSeq(text, 1, i - 1)>> \o SplitLines(SubSeq(text, i + 1, Len(text)))

BucketHeading(bucket) ==
    CASE bucket = "summary" -> "SUMMARY:"
      [] bucket = "action" -> "NEXT ACTIONS / FOLLOW-UPS:"
      [] bucket = "personal" -> "PERSONAL INFO:"
      [] bucket = "appointment" -> "APPOINTMENTS:"
      [] OTHER -> "OTHER KEY DETAILS:"

\* the lines of the rendered context under the heading of a bucket, up to
\* the empty line that ends the section
SectionLines(lines, bucket) ==
    IF \A i \in 1..Len(lines) : lines[i] # <<BucketHeading(bucket)>> THEN <<>>
    ELSE LET h == CHOOSE i \in 1..Len(lines) : lines[i] = <<BucketHeading(bucket)>>
             e == CHOOSE i \in (h + 1)..Len(lines) :
                     lines[i] = <<>> /\ \A j \in (h + 1)..(i - 1) : lines[j] # <<>>
         IN  SubSeq(lines, h + 1, e - 1)

\* a value as the claim shows it: cut to the limit, ellipsis included, when
\* it is longer than the limit
Truncated(value) ==
    IF Len(value) > ValueDisplayMax
    THEN SubSeq(value, 1, ValueDisplayMax - Len("...")) \o <<"...">>
    ELSE value

\* line shows the fact, in full or truncated
Renders(line, fact) ==
    \E v \in {fact.value, Truncated(fact.value)} :
        \/ line = <<"  ">> \o v
        \/ line = <<"  <bullet> ">> \o key_display(fact.key) \o <<": ">> \o v

\* the positions in the record of its max_facts_in_prompt most important
\* facts, the earlier of two equally important facts first
TopPositions(facts) ==
    {i \in 1..Len(facts) :
        Cardinality({j \in 1..Len(facts) :
                        \/ facts[j].importance > facts[i].importance
                        \/ facts[j].importance = facts[i].importance /\ j < i})
        < MaxFactsInPrompt}

FormattedLines == SplitLines(fm.context.full_context)

\* the rendered lines of the five buckets
FormattedSections ==
    LET lines == FormattedLines IN
    << SectionLines(lines, "summary"), SectionLines(lines, "action"),
       SectionLines(lines, "personal"), SectionLines(lines, "appointment"),
       SectionLines(lines, "other") >>

\* C34: the rendered context lists at most 2 summary, 3 next-action,
\* 3 personal-info, 3 appointment and 5 other facts, every one of them among
\* the 10 most important facts of the record, and no fact on two lines
C34_BucketsBounded ==
    (fm.pc = "formatted" /\ fm.context.has_history)
    => \A sections \in {FormattedSections}, top \in {TopPositions(fm.memory.facts)} :
          LET facts == fm.memory.facts IN
          /\ \A b \in 1..Len(Buckets) :
                /\ Len(sections[b]) <= BucketCap(Buckets[b])
                /\ \A k \in 1..Len(sections[b]) :
                      \E i \in top : Renders(sections[b][k], facts[i])
          /\ \A i \in top :
                Cardinality({at \in (1..Len(Buckets)) \X (1..MaxOther) :
                                /\ at[2] <= Len(sections[at[1]])
                                /\ Renders(sections[at[1]][at[2]], facts[i])}) <= 1

\* a record of more than 10 facts whose summary, action and personal
\* buckets are over their caps and whose one appointment is not among the 10
\* most important: the context shows 2 summaries, 3 actions, 3 personal
\* facts and no appointment
C34_Witness ==
    /\ fm.pc = "formatted" /\ fm.context.has_history
    /\ Len(fm.memory.facts) > MaxFactsInPrompt
    /\ Len(SectionLines(FormattedLines, "summary")) = MaxSummaries
    /\ Len(SectionLines(FormattedLines, "action")) = MaxActions
    /\ Len(SectionLines(FormattedLines, "personal")) = MaxPersonal
    /\ Len(SectionLines(FormattedLines, "appointment")) = 0
    /\ \E i \in 1..Len(fm.memory.facts) : is_appointment(fm.memory.facts[i].key)

\* C35: every rendered value is at most 100 characters long: a fact whose
\* value is longer is shown truncated to the limit with a trailing ellipsis,
\* whichever bucket it is in
C35_ValuesTruncated ==
    (fm.pc = "formatted" /\ fm.context.has_history)
    => \A b \in 1..Len(Buckets) :
          LET shown == SectionLines(FormattedLines, Buckets[b]) IN
          \A k \in 1..Len(shown) :
             \E i \in 1..Len(fm.memory.facts) :
                LET fact == fm.memory.facts[i] IN
                \/ shown[k] = <<"  ">> \o Truncated(fact.value)
                \/ shown[k] = <<"  <bullet> ">> \o key_display(fact.key) \o <<": ">>
                                   \o Truncated(fact.value)

\* the same for the facts of the last bucket
OtherValuesTruncated ==
    (fm.pc = "formatted" /\ fm.context.has_history)
    => LET shown == SectionLines(FormattedLines, "other") IN
       \A k \in 1..Len(shown) :
          \E i \in 1..Len(fm.memory.facts) :
             LET fact == fm.memory.facts[i] IN
             shown[k] = <<"  <bullet> ">> \o key_display(fact.key) \o <<": ">>
                             \o Truncated(fact.value)


(***************************************************************************)
(* CacheSpec: cache/backend.py.  Two coroutines of one worker process call *)
(* the cache operations, close() and _with_stampede_protection; they       *)
(* interleave where the code awaits (the ping of a new client, a Redis     *)
(* command, the close of the client, the fetch function).  The Redis       *)
(* server goes up and down, and a command can fail while it is up.         *)
(***************************************************************************)
ReconnectInterval == 30
MaxCalls == 3
MaxTicks == 1

CacheProcs == {"a", "b"}

\* _make_inbound_trunk_key, _make_outbound_trunk_key, _make_memory_key and
\* _make_dispatch_key for the one number the model uses
TrunkInKey == <<"trunk:in:", safe_phone(<<"+", "1">>)>>
TrunkOutKey == <<"trunk:out:", <<"sha256">>>>
MemoryKey == <<"memory:", safe_phone(<<"+", "1">>)>>
DispatchKey == <<"dispatch:", safe_phone(<<"+", "1">>)>>
CacheKeys == {TrunkInKey, TrunkOutKey, MemoryKey, DispatchKey}

\* the operations of CacheBackend and the basic operation each one calls
BasicOps == {"get", "set", "delete", "get_json", "set_json"}
TrunkOps ==
    {"get_trunk_id_outbound", "set_trunk_id_outbound", "invalidate_trunk_outbound",
     "get_trunk_id_inbound", "set_trunk_id_inbound", "invalidate_trunk_inbound"}
MemoryOps == {"get_memory", "set_memory", "invalidate_memory"}
DispatchOps == {"get_dispatch_rule", "set_dispatch_rule", "invalidate_dispatch_rule"}
CacheOps == BasicOps \cup TrunkOps \cup MemoryOps \cup DispatchOps

\* the callers of one worker process use the basic operations or the
\* operations of one family
Families == {"basic", "trunk", "memory", "dispatch"}
FamilyOps(family) ==
    CASE family = "basic" -> BasicOps
      [] family = "trunk" -> TrunkOps
      [] family = "memory" -> MemoryOps
      [] OTHER -> DispatchOps

basic_op(op) ==
    CASE op \in BasicOps -> op
      [] op \in {"get_trunk_id_outbound", "get_trunk_id_inbound"} -> "get"
      [] op \in {"set_trunk_id_outbound", "set_trunk_id_inbound"} -> "set"
      [] op \in {"get_memory", "get_dispatch_rule"} -> "get_json"
      [] op \in {"set_memory", "set_dispatch_rule"} -> "set_json"
      [] OTHER -> "delete"

\* the key an operation works on; `key` is the argument of a basic operation
op_key(op, key) ==
    CASE op \in BasicOps -> key
      [] op \in {"get_trunk_id_outbound", "set_trunk_id_outbound",
                 "invalidate_trunk_outbound"} -> TrunkOutKey
      [] op \in TrunkOps -> TrunkInKey
      [] op \in MemoryOps -> MemoryKey
      [] OTHER -> DispatchKey

IsRead(op) == basic_op(op) \in {"get", "get_json"}
IsWrite(op) == basic_op(op) \in {"set", "set_json"}

\* what an operation returns when it falls back
Fallback(op) == IF IsRead(op) THEN None ELSE False

\* the values a caller passes: a string that is not JSON, a dict, and a dict
\* that json.dumps cannot serialise
CacheValues == {"text", "dict", "unserialisable"}

\* (an operation that lets the exception of the Redis call out)
cache_no_fallback(op, result) == result

\* the except clauses of get, set, delete and set_json
cache_fallback(op, result) == IF IsRaise(result) THEN Fallback(op) ELSE result

\* what is stored for a value: set stores the string, set_json its JSON text
Stored(op, value) ==
    IF basic_op(op) = "set_json" \/ value = "dict" THEN "json" ELSE "text"

\* the value the Redis command of an operation returns, or the exception it
\* raises
command_result(op, data, key, outcome) ==
    IF outcome = "error" THEN Raise("RedisError")
    ELSE CASE basic_op(op) = "get" ->
                   IF data[key] = "none" THEN None ELSE Str(data[key])
           [] basic_op(op) = "get_json" ->
                   \* json.loads; JSONDecodeError becomes None
                   IF data[key] = "json" THEN [cls |-> "dict"] ELSE None
           [] OTHER -> True

\* the cache after the command
command_effect(op, data, key, value, outcome) ==
    IF outcome = "error" THEN data
    ELSE CASE basic_op(op) \in {"set", "set_json"} ->
                   [data EXCEPT ![key] = Stored(op, value)]
           [] basic_op(op) = "delete" -> [data EXCEPT ![key] = "none"]
           [] OTHER -> data

\* the state of the connection as an operation finds it
Connection ==
    CASE ca.redis_available = "None" -> "never tried"
      [] ca.redis_available = "False" -> "unavailable"
      [] ca.redis_client -> "available"
      [] OTHER -> "closed"

IdleProc == [pc |-> "idle", op |-> "none", key |-> <<>>, value |-> "none",
             conn |-> "none"]

CacheRet(op, value, fell_back, conn) ==
    [op |-> op, value |-> value, fell_back |-> fell_back, conn |-> conn]

\* REDIS_URL is set or not, and the redis package is installed or not
Environments ==
    {[url |-> TRUE, installed |-> TRUE], [url |-> FALSE, installed |-> TRUE],
     [url |-> TRUE, installed |-> FALSE]}

CacheInit ==
    /\ \E env \in Environments, up \in BOOLEAN, family \in Families :
          ca = [op |-> "none", env |-> env, server_up |-> up, family |-> family,
                redis_client |-> FALSE, redis_available |-> "None",
                last_connection_attempt |-> 0, clock |-> 0, ticks |-> 0,
                calls |-> 0,
                data |-> [k \in CacheKeys |-> "none"],
                connection_stamps |-> {},
                procs |-> [p \in CacheProcs |-> IdleProc],
                ret |-> CacheRet("none", None, FALSE, "none")]
    /\ StorageOff
    /\ MergeOff
    /\ StoreOff
    /\ BackendsOff
    /\ ExtractOff
    /\ CallOff
    /\ FlowOff
    /\ AgentOff
    /\ TrunkOff
    /\ FormatOff
    /\ ServiceOff

\* time.time() advances
CacheTick(d) ==
    /\ ca.op # "off"
    /\ ca.ticks < MaxTicks
    /\ ca' = [ca EXCEPT !.clock = @ + d, !.ticks = @ + 1]
    /\ UNCHANGED <<mg_vars, st_vars, sp_vars, bk_vars, ex_vars, cl_vars, fl_vars, ag_vars, tk_vars, fm_vars, sv_vars>>

\* the Redis server becomes unreachable, or reachable again
ServerFlip ==
    /\ ca.op # "off"
    /\ ca' = [ca EXCEPT !.server_up = ~@]
    /\ UNCHANGED <<mg_vars, st_vars, sp_vars, bk_vars, ex_vars, cl_vars, fl_vars, ag_vars, tk_vars, fm_vars, sv_vars>>

\* a cache operation from its call to its first await or to its return:
\* set_json serialises the value, then _get_redis_client runs up to the ping
\* of a new client, or the available client is handed the Redis command
CacheBegin(p, op, key, value) ==
    LET k == op_key(op, key)
        conn == Connection
        me == [pc |-> "idle", op |-> op, key |-> k, value |-> value, conn |-> conn]
        returns(v, fell_back) ==
            [ca EXCEPT !.calls = @ + 1, !.ret = CacheRet(op, v, fell_back, conn)]
    IN
    /\ ca.op # "off"
    /\ ca.procs[p].pc = "idle"
    /\ ca.calls < MaxCalls
    /\ op \in FamilyOps(ca.family)
    /\ IF basic_op(op) = "set_json" /\ value = "unserialisable"
       THEN ca' = returns(cache_fallback(op, Raise("TypeError")), FALSE)
       ELSE IF ca.redis_available = "True" /\ ca.redis_client
       THEN ca' = [ca EXCEPT !.calls = @ + 1,
                             !.procs[p] = [me EXCEPT !.pc = "command"]]
       ELSE IF /\ ca.redis_available = "False"
               /\ ca.clock - ca.last_connection_attempt < ReconnectInterval
       THEN ca' = returns(Fallback(op), TRUE)
       ELSE IF ~ca.env.url \/ ~ca.env.installed
       THEN ca' = [returns(Fallback(op), TRUE) EXCEPT
                      !.last_connection_attempt = ca.clock,
                      !.redis_available = "False"]
       ELSE ca' = [ca EXCEPT !.calls = @ + 1,
                             !.last_connection_attempt = ca.clock,
                             !.redis_client = TRUE,
                             !.procs[p] = [me EXCEPT !.pc = "ping"]]
    /\ UNCHANGED <<mg_vars, st_vars, sp_vars, bk_vars, ex_vars, cl_vars, fl_vars, ag_vars, tk_vars, fm_vars, sv_vars>>

\* `await _redis_client.ping()` returns or raises; on success the operation
\* goes on with the client that the global holds now
CachePingDone(p, outcome) ==
    LET me == ca.procs[p] IN
    /\ me.pc = "ping"
    /\ outcome = "ok" => ca.server_up
    /\ IF outcome = "ok" /\ ca.redis_client
       THEN ca' = [ca EXCEPT !.redis_available = "True",
                             !.procs[p] = [me EXCEPT !.pc = "command"]]
       ELSE ca' = [ca EXCEPT
                      !.redis_available = IF outcome = "ok" THEN "True" ELSE "False",
                      !.procs[p] = IdleProc,
                      !.ret = CacheRet(me.op, Fallback(me.op), TRUE, me.conn)]
    /\ UNCHANGED <<mg_vars, st_vars, sp_vars, bk_vars, ex_vars, cl_vars, fl_vars, ag_vars, tk_vars, fm_vars, sv_vars>>

\* the Redis command returns or raises, and the operation returns
CacheCommandDone(p, outcome) ==
    LET me == ca.procs[p]
        result == command_result(me.op, ca.data, me.key, outcome)
    IN
    /\ me.pc = "command"
    /\ outcome = "ok" => ca.server_up
    /\ ca' = [ca EXCEPT
                 !.data = command_effect(me.op, ca.data, me.key, me.value, outcome),
                 !.procs[p] = IdleProc,
                 !.ret = CacheRet(me.op, cache_fallback(me.op, result),
                                  outcome # "ok", me.conn)]
    /\ UNCHANGED <<mg_vars, st_vars, sp_vars, bk_vars, ex_vars, cl_vars, fl_vars, ag_vars, tk_vars, fm_vars, sv_vars>>

\* CacheBackend.close up to `await _redis_client.close()`
CacheCloseBegin(p) ==
    /\ ca.op # "off"
    /\ ca.procs[p].pc = "idle"
    /\ ca.calls < MaxCalls
    /\ IF ca.redis_client
       THEN ca' = [ca EXCEPT !.calls = @ + 1,
                             !.procs[p] = [IdleProc EXCEPT !.pc = "closing", !.op = "close"]]
       ELSE ca' = [ca EXCEPT !.calls = @ + 1,
                             !.ret = CacheRet("close", None, FALSE, Connection)]
    /\ UNCHANGED <<mg_vars, st_vars, sp_vars, bk_vars, ex_vars, cl_vars, fl_vars, ag_vars, tk_vars, fm_vars, sv_vars>>

\* the close of the client returns or raises: `_redis_client = None`
CacheCloseDone(p) ==
    /\ ca.procs[p].pc = "closing"
    /\ ca' = [ca EXCEPT !.redis_client = FALSE,
                        !.procs[p] = IdleProc,
                        !.ret = CacheRet("close", None, FALSE, "none")]
    /\ UNCHANGED <<mg_vars, st_vars, sp_vars, bk_vars, ex_vars, cl_vars, fl_vars, ag_vars, tk_vars, fm_vars, sv_vars>>

\* _with_stampede_protection up to `await fetch_func()`: the lock is free
\* whenever a coroutine asks for it, since nothing awaits while holding it
StampedeEnter(p, key) ==
    /\ ca.op # "off"
    /\ ca.procs[p].pc = "idle"
    /\ ca.calls < MaxCalls
    /\ ca' = [ca EXCEPT !.calls = @ + 1,
                        !.connection_stamps = @ \cup {key},
                        !.procs[p] = [IdleProc EXCEPT !.pc = "fetch", !.op = "fetch",
                                                      !.key = key]]
    /\ UNCHANGED <<mg_vars, st_vars, sp_vars, bk_vars, ex_vars, cl_vars, fl_vars, ag_vars, tk_vars, fm_vars, sv_vars>>

\* fetch_func returns or raises; the finally clause pops the key
StampedeExit(p) ==
    /\ ca.procs[p].pc = "fetch"
    /\ ca' = [ca EXCEPT !.connection_stamps = @ \ {ca.procs[p].key},
                        !.procs[p] = IdleProc,
                        !.ret = CacheRet("fetch", None, FALSE, "none")]
    /\ UNCHANGED <<mg_vars, st_vars, sp_vars, bk_vars, ex_vars, cl_vars, fl_vars, ag_vars, tk_vars, fm_vars, sv_vars>>

CacheNext ==
    \/ \E d \in {ReconnectInterval - 1, ReconnectInterval} : CacheTick(d)
    \/ ServerFlip
    \/ \E p \in CacheProcs, op \in CacheOps, key \in {MemoryKey} :
          \E value \in IF IsWrite(op) THEN CacheValues ELSE {"none"} :
             CacheBegin(p, op, key, value)
    \/ \E p \in CacheProcs, outcome \in {"ok", "error"} : CachePingDone(p, outcome)
    \/ \E p \in CacheProcs, outcome \in {"ok", "error"} : CacheCommandDone(p, outcome)
    \/ \E p \in CacheProcs : CacheCloseBegin(p)
    \/ \E p \in CacheProcs : CacheCloseDone(p)
    \/ \E p \in CacheProcs, key \in {MemoryKey, DispatchKey} : StampedeEnter(p, key)
    \/ \E p \in CacheProcs : StampedeExit(p)

CacheSpec == CacheInit /\ [][CacheNext]_vars

\* C28: of the coroutines that run _with_stampede_protection for the same
\* key, at most one is executing the fetch function at any time
C28_OneFetchPerKey ==
    ca.op # "off" =>
        \A p, q \in CacheProcs :
            (p # q /\ ca.procs[p].pc = "fetch" /\ ca.procs[q].pc = "fetch")
            => ca.procs[p].key # ca.procs[q].key

\* C29: no cache operation raises, and an operation that found Redis
\* unconfigured or unreachable, or whose Redis command failed, returns None
\* when it is a read and False when it is a write or an invalidation
C29_CacheFallsBack ==
    (ca.op # "off" /\ ca.ret.op \in CacheOps)
    => /\ ~IsRaise(ca.ret.value)
       /\ ca.ret.fell_back => ca.ret.value = Fallback(ca.ret.op)
       /\ IsRead(ca.ret.op) \/ ca.ret.value \in {True, False}

C29_Witness ==
    /\ ca.op # "off"
    /\ ca.ret.op = "set_memory"
    /\ ca.ret.conn = "closed"
    /\ ca.ret.fell_back
    /\ ca.ret.value = False

(***************************************************************************)
(* MergeSpec: inputs of _merge_facts drawn from bounded families.          *)
(* Keys are named by numbers (key i stands for a distinct key string).     *)
(***************************************************************************)
NumKeys == 17
MaxNew == 2

KeyPatterns == {"distinct", "pairs", "cycle"}
ImportancePatterns == {"high", "low", "up", "down"}

PatternKey(kp, i) ==
    CASE kp = "distinct" -> i
      [] kp = "pairs"    -> (i + 1) \div 2
      [] kp = "cycle"    -> ((i - 1) % 3) + 1

PatternImportance(ip, i) ==
    CASE ip = "high" -> ImportanceMax
      [] ip = "low"  -> ImportanceMin
      [] ip = "up"   -> ((i - 1) % ImportanceMax) + 1
      [] ip = "down" -> ImportanceMax - ((i - 1) % ImportanceMax)

ExistingInput(n, kp, ip) ==
    [i \in 1..n |-> Fact(PatternKey(kp, i), <<"old", i>>, PatternImportance(ip, i),
                         Datetime(0, 0), "llm")]

NewKeys == {1, 2, NumKeys}
NewImportances == {ImportanceMin, ImportanceMax}

NewInputs ==
    UNION {
        { [j \in 1..m |-> Fact(ks[j], <<"new", j>>, is[j], Datetime(1, 0), "llm")] :
            ks \in [1..m -> NewKeys], is \in [1..m -> NewImportances] } :
        m \in 0..MaxNew }

MergeInit ==
    /\ mg_pc = "input"
    /\ \E n \in 0..NumKeys, kp \in KeyPatterns, ip \in ImportancePatterns :
          mg_existing = ExistingInput(n, kp, ip)
    /\ mg_new \in NewInputs
    /\ mg_merged = <<>>
    /\ mg_remerged = <<>>
    /\ StorageOff
    /\ StoreOff
    /\ ServiceOff
    /\ BackendsOff
    /\ ExtractOff
    /\ CallOff
    /\ CacheOff
    /\ FlowOff
    /\ AgentOff
    /\ TrunkOff
    /\ FormatOff

Merge ==
    /\ mg_pc = "input"
    /\ mg_merged' = merge_facts(mg_existing, mg_new)
    /\ mg_pc' = "merged"
    /\ UNCHANGED <<mg_existing, mg_new, mg_remerged, st_vars, sp_vars, sv_vars, bk_vars, ex_vars, cl_vars, ca_vars, fl_vars, ag_vars, tk_vars, fm_vars>>

Remerge ==
    /\ mg_pc = "merged"
    /\ mg_remerged' = merge_facts(mg_merged, <<>>)
    /\ mg_pc' = "remerged"
    /\ UNCHANGED <<mg_existing, mg_new, mg_merged, st_vars, sp_vars, sv_vars, bk_vars, ex_vars, cl_vars, ca_vars, fl_vars, ag_vars, tk_vars, fm_vars>>

MergeNext == Merge \/ Remerge

MergeSpec == MergeInit /\ [][MergeNext]_vars

(***************************************************************************)
(* Properties of _merge_facts (checked under MergeSpec).                   *)
(***************************************************************************)
Range(seq) == {seq[i] : i \in 1..Len(seq)}

KeysOf(facts) == {facts[i].key : i \in 1..Len(facts)}

Positions(facts, k) == {i \in 1..Len(facts) : facts[i].key = k}

\* the last entry of `facts` with key k
LastOf(facts, k) ==
    facts[CHOOSE i \in Positions(facts, k) : \A j \in Positions(facts, k) : j <= i]

MergeDone == mg_pc \in {"merged", "remerged"}

InputKeys == KeysOf(mg_existing) \cup KeysOf(mg_new)

\* C4: for all lists existing and new, the merged list has at most MaxFacts
\* (15, the maximum the code fixes) facts.
C4_MergeBounded == MergeDone => Len(mg_merged) <= MaxFacts

\* C4 witness: more distinct keys went in than the cap allows, and the merge
\* came out at exactly the cap.
C4_Witness ==
    /\ MergeDone
    /\ Cardinality(InputKeys) > MaxFacts
    /\ Len(mg_merged) = MaxFacts

\* C5 (as claimed): for any key present in both existing and new, the merged
\* list holds exactly one fact for that key and it is the (last) new fact.
C5_NewFactHeld ==
    MergeDone =>
        \A k \in KeysOf(mg_existing) \cap KeysOf(mg_new) :
            /\ \E i \in 1..Len(mg_merged) : mg_merged[i] = LastOf(mg_new, k)
            /\ Cardinality(Positions(mg_merged, k)) = 1

\* C5 (amended): for any key present in both existing and new, the merged list
\* holds at most one fact for that key; if it holds one, it is the last new
\* fact with that key (value and importance), never the existing one; and it
\* does hold one whenever the inputs have at most MaxFacts distinct keys.
C5_LastWriteWins ==
    MergeDone =>
        \A k \in KeysOf(mg_existing) \cap KeysOf(mg_new) :
            /\ Cardinality(Positions(mg_merged, k)) <= 1
            /\ \A i \in Positions(mg_merged, k) : mg_merged[i] = LastOf(mg_new, k)
            /\ Cardinality(InputKeys) <= MaxFacts => Positions(mg_merged, k) # {}

\* C5 witness: a key stored before is repeated by new with two different
\* importances, and the merged list carries the later new entry for it.
C5_Witness ==
    /\ MergeDone
    /\ \E k \in KeysOf(mg_existing) \cap KeysOf(mg_new) :
          /\ Cardinality(Positions(mg_new, k)) >= 2
          /\ \E j \in Positions(mg_new, k) : mg_new[j].importance # LastOf(mg_new, k).importance
          /\ LastOf(mg_existing, k).importance # LastOf(mg_new, k).importance
          /\ \E i \in 1..Len(mg_merged) : mg_merged[i] = LastOf(mg_new, k)

\* C6: the output of merge is sorted by importance in non-increasing order
\* and every fact in it has an integer importance between 1 and 10.
C6_SortedAndRanged ==
    MergeDone =>
        /\ \A i, j \in 1..Len(mg_merged) :
              i < j => mg_merged[i].importance >= mg_merged[j].importance
        /\ \A i \in 1..Len(mg_merged) :
              mg_merged[i].importance \in ImportanceMin..ImportanceMax

\* C6 witness: the inputs came in rising importance and the merged list
\* spans the whole range, highest first.
C6_Witness ==
    /\ MergeDone
    /\ Len(mg_existing) >= 2
    /\ mg_existing[1].importance < mg_existing[2].importance
    /\ Len(mg_merged) >= 2
    /\ mg_merged[1].importance = ImportanceMax
    /\ mg_merged[Len(mg_merged)].importance = ImportanceMin

\* C7: merging nothing is a no-op: merge(merge(A, B), []) = merge(A, B), the
\* same facts in the same order.
C7_MergeNothingNoOp == mg_pc = "remerged" => mg_remerged = mg_merged

\* C7 witness: a truncated merge holding facts of equal importance was merged
\* with the empty list again.
C7_Witness ==
    /\ mg_pc = "remerged"
    /\ Cardinality(InputKeys) > MaxFacts
    /\ Len(mg_remerged) = MaxFacts
    /\ \E i \in 1..(Len(mg_merged) - 1) :
          mg_merged[i].importance = mg_merged[i + 1].importance

\* C8: fact keys are pairwise distinct in the merged list that save writes,
\* also when existing or new repeat a key.
C8_KeysDistinct ==
    MergeDone =>
        \A i, j \in 1..Len(mg_merged) :
            mg_merged[i].key = mg_merged[j].key => i = j

\* C8 witness: new repeats a key, that key is already stored, and the stored
\* list repeats a key too; the merge holds the key once.
C8_Witness ==
    /\ MergeDone
    /\ \E k \in KeysOf(mg_existing) \cap KeysOf(mg_new) :
          /\ Cardinality(Positions(mg_new, k)) >= 2
          /\ Cardinality(Positions(mg_existing, k)) >= 2
          /\ Cardinality(Positions(mg_merged, k)) = 1

\* the facts that entered the sort: one per key, after the overrides
MergeCandidates == Range(dict_fill(dict_fill(<<>>, mg_existing), mg_new))

\* C9: every fact dropped by truncation has importance less than or equal to
\* the importance of every fact retained.
C9_LowestDroppedFirst ==
    MergeDone =>
        \A d \in MergeCandidates \ Range(mg_merged) :
            \A r \in Range(mg_merged) : d.importance <= r.importance

\* C9 witness: truncation dropped a fact that is strictly less important than
\* a retained one, although it came earlier in the input.
C9_Witness ==
    /\ MergeDone
    /\ \E d \in MergeCandidates \ Range(mg_merged) :
          /\ \E r \in Range(mg_merged) : d.importance < r.importance
          /\ mg_existing[1] = d

(***************************************************************************)
(* FlowSpec: MemoryService.save taken one await at a time: the read of the *)
(* existing record, each model call of the extractor, the merge and the    *)
(* write.  The log holds what the save has done so far.                    *)
(***************************************************************************)
MaxSaves == 2

FlowPhone == Str(<<"+", "1">>)

FlowEvent(e, n, ok) == [e |-> e, n |-> n, ok |-> ok]

FlowIdle(saves, value) ==
    [pc |-> "idle", saves |-> saves, history |-> None, llm |-> None,
     existing |-> None, attempt |-> 0, in_flight |-> 0, status |-> "none",
     new_facts |-> <<>>, log |-> <<>>, before |-> EmptyStore, ret |-> value]

FlowInit ==
    /\ backend \in Backends
    /\ store = EmptyStore
    /\ fl = FlowIdle(0, None)
    /\ now = Datetime(0, 0) /\ events = 0 /\ svc = <<>> /\ ret = [op |-> "none"]
    /\ MergeOff
    /\ StoreOff
    /\ BackendsOff
    /\ ExtractOff
    /\ CallOff
    /\ CacheOff
    /\ AgentOff
    /\ TrunkOff
    /\ FormatOff

\* save is called: line 115, past the early returns
FlowCall(history, llm) ==
    /\ fl.pc = "idle"
    /\ fl.saves < MaxSaves
    /\ fl' = [FlowIdle(fl.saves + 1, None) EXCEPT
                !.pc = "get", !.history = history, !.llm = llm, !.before = store]
    /\ UNCHANGED <<mg_vars, st_vars, sp_vars, bk_vars, ex_vars, cl_vars, ca_vars,
                   ag_vars, tk_vars, fm_vars, sv_vars>>

\* lines 116-123: `existing = await self._store.get(phone)`; an exception
\* goes to the except clause at 148 and save returns False
FlowGet(fault) ==
    /\ fl.pc = "get"
    /\ LET existing == save_existing(backend, store, FlowPhone, fault, now)
           got == FlowEvent("get", 0,
                            ~IsRaise(store_get(backend, store, FlowPhone.chars, fault))) IN
       IF IsRaise(existing)
       THEN fl' = [fl EXCEPT !.pc = "idle", !.log = Append(@, got),
                             !.ret = handle_exception(existing, False)]
       ELSE fl' = [fl EXCEPT !.pc = "extract", !.existing = existing,
                             !.log = Append(@, got)]
    /\ UNCHANGED <<mg_vars, st_vars, sp_vars, bk_vars, ex_vars, cl_vars, ca_vars,
                   ag_vars, tk_vars, fm_vars, sv_vars>>

\* lines 125-128 of save and 66-85 of extract: everything before the first
\* model call
FlowExtract ==
    /\ fl.pc = "extract"
    /\ IF ~(fl.history # None /\ fl.history.items # <<>> /\ fl.llm # None)
       THEN fl' = [fl EXCEPT !.pc = "merge", !.status = "skipped"]
       ELSE LET user == has_user_content(fl.history.items) IN
            IF user = "raise"
            THEN fl' = [fl EXCEPT !.pc = "merge", !.status = "raised"]
            ELSE IF user = "false" \/ format_conversation(fl.history.items) = <<>>
            THEN fl' = [fl EXCEPT !.pc = "merge", !.status = "success"]
            ELSE fl' = [fl EXCEPT !.pc = "attempt", !.attempt = 1,
                                  !.status = "attempting"]
    /\ UNCHANGED <<mg_vars, st_vars, sp_vars, bk_vars, ex_vars, cl_vars, ca_vars,
                   ag_vars, tk_vars, fm_vars, sv_vars>>

\* line 115 of extract: `result_text = await self._extract_with_llm(prompt)`
\* is entered
FlowModelCall ==
    /\ fl.pc = "attempt"
    /\ fl' = [fl EXCEPT !.pc = "calling", !.in_flight = @ + 1,
                        !.log = Append(@, FlowEvent("call", fl.attempt, TRUE))]
    /\ UNCHANGED <<mg_vars, st_vars, sp_vars, bk_vars, ex_vars, cl_vars, ca_vars,
                   ag_vars, tk_vars, fm_vars, sv_vars>>

\* the model call returns: lines 117-147 of extract, and the return of
\* _extract_facts when the loop is left
FlowModelReply ==
    /\ fl.pc = "calling"
    /\ LET r == Response(fl.llm, fl.attempt)
           heard == [fl EXCEPT !.in_flight = @ - 1,
                               !.log = Append(@, FlowEvent("reply", fl.attempt,
                                                           attempt_succeeds(r)))] IN
       IF attempt_succeeds(r)
       THEN fl' = [heard EXCEPT !.pc = "merge", !.status = "success",
                                !.new_facts = parse_and_validate(r.facts, now)]
       ELSE IF may_retry(fl.attempt, MaxRetries)
       THEN fl' = [heard EXCEPT !.pc = "attempt", !.attempt = @ + 1]
       ELSE fl' = [heard EXCEPT !.pc = "merge", !.status = "failed"]
    /\ UNCHANGED <<mg_vars, st_vars, sp_vars, bk_vars, ex_vars, cl_vars, ca_vars,
                   ag_vars, tk_vars, fm_vars, sv_vars>>

\* lines 130-146: the merge, the dates and the count, `await
\* self._store.save(memory)`, and the return
FlowWrite(fault) ==
    /\ fl.pc = "merge"
    /\ LET memory == save_memory(FlowPhone, fl.existing, fl.new_facts, now)
           written == store_save(backend, store, FlowPhone.chars, memory, fault) IN
       /\ store' = written.store
       /\ fl' = [fl EXCEPT
             !.pc = "idle",
             !.log = fl.log \o <<FlowEvent("merge", 0, TRUE),
                                 FlowEvent("write", 0, ~IsRaise(written.ret))>>,
             !.ret = handle_exception(IF IsRaise(written.ret) THEN written.ret
                                      ELSE True, False)]
    /\ UNCHANGED <<backend, mg_vars, sp_vars, bk_vars, ex_vars, cl_vars, ca_vars,
                   ag_vars, tk_vars, fm_vars, sv_vars>>

FlowNext ==
    \/ \E c \in 1..Len(Conversations) :
          FlowCall(Conversations[c].history, Conversations[c].llm)
    \/ \E fault \in GetFaults : FlowGet(fault)
    \/ FlowExtract
    \/ FlowModelCall
    \/ FlowModelReply
    \/ \E fault \in SaveFaults(backend) : FlowWrite(fault)

FlowSpec == FlowInit /\ [][FlowNext]_vars

\* the positions of the log that hold an event of this kind
FlowAt(e) == {i \in 1..Len(fl.log) : fl.log[i].e = e}

\* extraction is over: it was not run, it returned, or it raised into
\* _extract_facts
ExtractionOver == fl.status \in {"skipped", "success", "failed", "raised"}

\* C31: within one save the steps come in the order Storage.get, the
\* extraction attempts, the merge, Storage.save; at most one model call is in
\* flight and attempt n+1 starts only after attempt n has failed; Storage.save
\* is invoked at most once and only when extraction is over; when Storage.get
\* raises there is no model call and no write.
C31_SaveStepsInOrder ==
    fl.pc # "off" =>
        /\ fl.in_flight <= 1
        /\ \A i \in FlowAt("get") : i = 1
        /\ \A i \in FlowAt("call") :
              /\ i > 1
              /\ IF fl.log[i].n = 1 THEN fl.log[i - 1] = FlowEvent("get", 0, TRUE)
                 ELSE fl.log[i - 1] = FlowEvent("reply", fl.log[i].n - 1, FALSE)
        /\ \A i \in FlowAt("reply") :
              i > 1 /\ fl.log[i - 1] = FlowEvent("call", fl.log[i].n, TRUE)
        /\ \A i \in FlowAt("merge") :
              /\ i > 1
              /\ fl.log[i - 1].e \in {"get", "reply"}
              /\ fl.log[i - 1].e = "get" => fl.log[i - 1].ok
              /\ i < Len(fl.log) /\ fl.log[i + 1].e = "write"
        /\ Cardinality(FlowAt("write")) <= 1
        /\ \A i \in FlowAt("write") :
              /\ i = Len(fl.log) /\ fl.log[i - 1].e = "merge"
              /\ ExtractionOver
              /\ fl.in_flight = 0
        /\ (fl.log # <<>> /\ ~fl.log[1].ok) =>
              /\ FlowAt("call") = {} /\ FlowAt("write") = {}
              /\ store = fl.before
              /\ fl.ret = False

\* C31 witness: a save whose first attempts failed and whose last one
\* succeeded has written the record.
C31_Witness ==
    /\ fl.pc = "idle"
    /\ Cardinality(FlowAt("call")) > 1
    /\ FlowAt("write") # {}
    /\ fl.status = "success"
    /\ fl.ret = True

\* a save whose read raised has returned
FlowReadRaised ==
    fl.pc = "idle" /\ fl.log # <<>> /\ ~fl.log[1].ok

(***************************************************************************)
(* ExitSpec: AgentSetup (agent/core/voice_agent.py) from the end of a call *)
(* through on_exit.  HangupCall and CallTranscription are mixins defined   *)
(* outside these sources: handle_unanswered_call marks the call as never   *)
(* answered, stop_recording returns the recording response or raises,      *)
(* save_call_metadata and _save_conversation persist and return.           *)
(***************************************************************************)
AgentPhones == <<None, Str(<<"+", "1">>)>>

\* the memory_service argument of the constructor: none, or a MemoryService
AgentService(enabled, phone) == [cls |-> "MemoryService", enabled |-> enabled,
                                 phone_number |-> phone]
AgentServices ==
    << None, AgentService(TRUE, Str(<<"+", "1">>)), AgentService(TRUE, None),
       AgentService(FALSE, Str(<<"+", "1">>)) >>

\* conversation_history and the model of the session at the end of the call
AgentConversations ==
    << Conversation(List(<<>>), LlmName),
       Conversation(UserSaidHi, None),
       Conversation(UserSaidHi, LlmName),
       Conversation(UserSaidHi, LlmGarbage) >>

\* the record of an earlier call of this caller
AgentEarlier ==
    CallerMemory(<<"+", "1">>, Datetime(0, 0), Datetime(0, 0), 1,
                 <<Fact(<<"n">>, ValueName, 10, Datetime(0, 0), "llm")>>)

AgentClock == Datetime(1, 0)

\* MemoryService.save, start to return: [ret, store]
memory_service_save(service, phone_number, conv, b, st, get_fault, save_fault, clock) ==
    LET phone == IF phone_number # None THEN phone_number ELSE service.phone_number
        existing == save_existing(b, st, phone, get_fault, clock)
        extracted == save_new_facts(conv.history, conv.llm, clock)
        memory == save_memory(phone, existing, extracted.facts, clock)
        written == IF IsRaise(existing) THEN [ret |-> existing, store |-> st]
                   ELSE store_save(b, st, phone.chars, memory, save_fault)
    IN
    IF skips(service.enabled, phone) THEN [ret |-> False, store |-> st]
    ELSE [ret |-> handle_exception(IF IsRaise(written.ret) THEN written.ret
                                   ELSE True, False),
          store |-> written.store]

\* (an on_exit that persists unanswered calls like any other)
exit_skipped_never(unanswered_call) == FALSE

\* `if getattr(self, "_unanswered_call", False): return`
exit_skipped(unanswered_call) == unanswered_call

\* `if self._call_memory_enabled and self._memory_service:`
saves_call_memory(call_memory_enabled, memory_service) ==
    call_memory_enabled /\ memory_service # None

ExitInit ==
    /\ backend \in Backends
    /\ \E earlier \in BOOLEAN :
          store = IF earlier
                  THEN store_save(backend, EmptyStore, <<"+", "1">>, AgentEarlier, "ok").store
                  ELSE EmptyStore
    /\ \E call_recording \in BOOLEAN, save_metadata \in BOOLEAN,
          save_transcription \in BOOLEAN, remember_call \in BOOLEAN,
          p \in 1..Len(AgentPhones), s \in 1..Len(AgentServices),
          c \in 1..Len(AgentConversations) :
          ag = [pc |-> "call",
                call_recording |-> call_recording,
                save_metadata |-> save_metadata,
                save_transcription |-> save_transcription,
                call_memory_phone |-> AgentPhones[p],
                call_memory_enabled |-> remember_call,
                memory_service |-> AgentServices[s],
                conversation |-> c,
                unanswered_call |-> FALSE,
                response |-> None,
                log |-> <<>>,
                saves |-> 0,
                escaped |-> FALSE,
                before |-> store]
    /\ now = Datetime(0, 0) /\ events = 0 /\ svc = <<>> /\ ret = [op |-> "none"]
    /\ MergeOff
    /\ StoreOff
    /\ BackendsOff
    /\ ExtractOff
    /\ CallOff
    /\ CacheOff
    /\ FlowOff
    /\ TrunkOff
    /\ FormatOff

\* HangupCall.handle_unanswered_call: the call ended without an answer
HandleUnansweredCall ==
    /\ ag.pc = "call"
    /\ ~ag.unanswered_call
    /\ ag' = [ag EXCEPT !.unanswered_call = TRUE]
    /\ UNCHANGED <<mg_vars, st_vars, sp_vars, bk_vars, ex_vars, cl_vars, ca_vars,
                   fl_vars, tk_vars, fm_vars, sv_vars>>

\* on_exit is entered: lines 138-145
ExitEnter ==
    /\ ag.pc = "call"
    /\ ag' = [ag EXCEPT !.pc = IF exit_skipped(ag.unanswered_call) THEN "exited"
                               ELSE "recording"]
    /\ UNCHANGED <<mg_vars, st_vars, sp_vars, bk_vars, ex_vars, cl_vars, ca_vars,
                   fl_vars, tk_vars, fm_vars, sv_vars>>

\* lines 147-154: stop_recording, whose exception is logged
ExitRecording(stopped) ==
    /\ ag.pc = "recording"
    /\ IF ag.call_recording
       THEN ag' = [ag EXCEPT !.pc = "metadata",
                             !.response = IF stopped THEN Str("egress") ELSE None,
                             !.log = Append(@, "recording")]
       ELSE ag' = [ag EXCEPT !.pc = "metadata"]
    /\ UNCHANGED <<mg_vars, st_vars, sp_vars, bk_vars, ex_vars, cl_vars, ca_vars,
                   fl_vars, tk_vars, fm_vars, sv_vars>>

\* lines 156-157: save_call_metadata
ExitMetadata ==
    /\ ag.pc = "metadata"
    /\ ag' = [ag EXCEPT !.pc = "transcription",
                        !.log = IF ag.save_metadata THEN Append(@, "metadata") ELSE @]
    /\ UNCHANGED <<mg_vars, st_vars, sp_vars, bk_vars, ex_vars, cl_vars, ca_vars,
                   fl_vars, tk_vars, fm_vars, sv_vars>>

\* lines 159-160: _save_conversation
ExitTranscription ==
    /\ ag.pc = "transcription"
    /\ ag' = [ag EXCEPT !.pc = "memory",
                        !.log = IF ag.save_transcription THEN Append(@, "transcription")
                                ELSE @]
    /\ UNCHANGED <<mg_vars, st_vars, sp_vars, bk_vars, ex_vars, cl_vars, ca_vars,
                   fl_vars, tk_vars, fm_vars, sv_vars>>

\* lines 162-178: the memory save inside its try block, and the return
ExitMemory(get_fault, save_fault) ==
    /\ ag.pc = "memory"
    /\ IF saves_call_memory(ag.call_memory_enabled, ag.memory_service)
       THEN \E saved \in {memory_service_save(ag.memory_service, ag.call_memory_phone,
                              AgentConversations[ag.conversation], backend, store,
                              get_fault, save_fault, AgentClock)} :
               /\ store' = saved.store
               /\ ag' = [ag EXCEPT !.pc = "exited", !.saves = @ + 1,
                                   !.log = Append(@, "memory"),
                                   !.escaped = IsRaise(handle_exception(saved.ret, None))]
       ELSE /\ store' = store
            /\ ag' = [ag EXCEPT !.pc = "exited"]
    /\ UNCHANGED <<backend, mg_vars, sp_vars, bk_vars, ex_vars, cl_vars, ca_vars,
                   fl_vars, tk_vars, fm_vars, sv_vars>>

ExitNext ==
    \/ HandleUnansweredCall
    \/ ExitEnter
    \/ \E stopped \in BOOLEAN : ExitRecording(stopped)
    \/ ExitMetadata
    \/ ExitTranscription
    \/ \E get_fault \in GetFaults, save_fault \in SaveFaults(backend) :
          ExitMemory(get_fault, save_fault)

ExitSpec == ExitInit /\ [][ExitNext]_vars

\* the persistence steps the flags of this agent ask for, in the order of
\* on_exit
ExitSteps ==
    (IF ag.call_recording THEN <<"recording">> ELSE <<>>)
    \o (IF ag.save_metadata THEN <<"metadata">> ELSE <<>>)
    \o (IF ag.save_transcription THEN <<"transcription">> ELSE <<>>)

ExitUnanswered ==
    /\ ag.pc = "exited"
    /\ ag.unanswered_call
    /\ ag.call_memory_enabled /\ ag.memory_service # None
    /\ ag.before # EmptyStore

(***************************************************************************)
(* TrunkSpec: Trunk (telephony/outbound/trunk.py) in front of LiveKit's    *)
(* outbound trunks and the trunk-id cache of cache/backend.py.  A cache    *)
(* operation falls back (None / False) while Redis is unreachable.         *)
(***************************************************************************)
MaxTrunkCalls == 4

\* the ids LiveKit hands out, in order; NoTrunk stands for None
TrunkIds == <<"ST_1", "ST_2", "ST_3">>
NoTrunk == "None"
NoArg == "None"

SipNumbers == {"+1", "+2"}
SipAddresses == {"sip.a"}
SipUsernames == {"u", "v"}

\* _make_outbound_trunk_key: one key per (number, address, username)
outbound_trunk_key(sip_number, sip_address, sip_username) ==
    <<sip_number, sip_address, sip_username>>

OutboundKeys ==
    {outbound_trunk_key(n, a, u) : n \in SipNumbers, a \in SipAddresses, u \in SipUsernames}

SipTrunk(id, number, address, username) ==
    [sip_trunk_id |-> id, number |-> number, address |-> address,
     auth_username |-> username]

\* CacheBackend.get_trunk_id_outbound
get_trunk_id_outbound(cache, up, key) == IF up THEN cache[key] ELSE NoTrunk

\* CacheBackend.set_trunk_id_outbound: the cache afterwards
set_trunk_id_outbound(cache, up, key, trunk_id) ==
    IF up THEN [cache EXCEPT ![key] = trunk_id] ELSE cache

\* CacheBackend.invalidate_trunk_outbound: the cache afterwards
invalidate_trunk_outbound(cache, up, key) ==
    IF up THEN [cache EXCEPT ![key] = NoTrunk] ELSE cache

\* `if sip_number and sip_address and sip_username:` of delete_trunk
invalidates(sip_number, sip_address, sip_username) ==
    sip_number # NoArg /\ sip_address # NoArg /\ sip_username # NoArg

TrunkRet(op, trunk_id, success, cached) ==
    [op |-> op, trunk_id |-> trunk_id, success |-> success, cached |-> cached]

TrunkInit ==
    /\ tk = [op |-> "none", livekit |-> {}, issued |-> 0,
             cache |-> [k \in OutboundKeys |-> NoTrunk], up |-> TRUE,
             deleted |-> {}, calls |-> 0, clean |-> TRUE,
             ret |-> TrunkRet("none", NoTrunk, FALSE, FALSE)]
    /\ StorageOff
    /\ MergeOff
    /\ StoreOff
    /\ BackendsOff
    /\ ExtractOff
    /\ ServiceOff
    /\ CallOff
    /\ CacheOff
    /\ FlowOff
    /\ AgentOff
    /\ FormatOff

\* Redis becomes unreachable, or reachable again with what it held
TrunkCacheFlip ==
    /\ tk.op # "off"
    /\ tk' = [tk EXCEPT !.up = ~@, !.op = "flip"]
    /\ UNCHANGED <<mg_vars, st_vars, sp_vars, bk_vars, ex_vars, cl_vars, ca_vars,
                   fl_vars, ag_vars, fm_vars, sv_vars>>

\* the ttl of a cached trunk id runs out
TrunkCacheExpire(key) ==
    /\ tk.op # "off"
    /\ tk.cache[key] # NoTrunk
    /\ tk' = [tk EXCEPT !.cache[key] = NoTrunk, !.op = "expire"]
    /\ UNCHANGED <<mg_vars, st_vars, sp_vars, bk_vars, ex_vars, cl_vars, ca_vars,
                   fl_vars, ag_vars, fm_vars, sv_vars>>

\* Trunk.create_trunk; LiveKit creates the trunk or raises
create_trunk(sip_address, sip_number, sip_username, created) ==
    /\ tk.op # "off"
    /\ tk.calls < MaxTrunkCalls
    /\ tk.issued < Len(TrunkIds)
    /\ IF created
       THEN LET trunk_id == TrunkIds[tk.issued + 1] IN
            tk' = [tk EXCEPT
               !.op = "create_trunk", !.calls = @ + 1, !.issued = @ + 1,
               !.livekit = @ \cup {SipTrunk(trunk_id, sip_number, sip_address,
                                            sip_username)},
               !.cache = set_trunk_id_outbound(@, tk.up,
                             outbound_trunk_key(sip_number, sip_address, sip_username),
                             trunk_id),
               !.ret = TrunkRet("create_trunk", trunk_id, TRUE, FALSE)]
       ELSE tk' = [tk EXCEPT !.op = "create_trunk", !.calls = @ + 1,
                             !.ret = TrunkRet("create_trunk", NoTrunk, FALSE, FALSE)]
    /\ UNCHANGED <<mg_vars, st_vars, sp_vars, bk_vars, ex_vars, cl_vars, ca_vars,
                   fl_vars, ag_vars, fm_vars, sv_vars>>

\* Trunk.get_trunk; LiveKit lists the trunks or raises
get_trunk(sip_address, sip_number, sip_username, listed) ==
    LET key == outbound_trunk_key(sip_number, sip_address, sip_username)
        cached_id == get_trunk_id_outbound(tk.cache, tk.up, key)
        matches == {t \in tk.livekit : /\ t.address = sip_address
                                       /\ t.number = sip_number
                                       /\ t.auth_username = sip_username}
    IN
    /\ tk.op # "off"
    /\ tk.calls < MaxTrunkCalls
    /\ IF cached_id # NoTrunk
       THEN tk' = [tk EXCEPT !.op = "get_trunk", !.calls = @ + 1,
                             !.ret = TrunkRet("get_trunk", cached_id, TRUE, TRUE)]
       ELSE IF ~listed \/ matches = {}
       THEN tk' = [tk EXCEPT !.op = "get_trunk", !.calls = @ + 1,
                             !.ret = TrunkRet("get_trunk", NoTrunk, FALSE, FALSE)]
       ELSE \E t \in matches :
               tk' = [tk EXCEPT
                  !.op = "get_trunk", !.calls = @ + 1,
                  !.cache = set_trunk_id_outbound(@, tk.up, key, t.sip_trunk_id),
                  !.ret = TrunkRet("get_trunk", t.sip_trunk_id, TRUE, FALSE)]
    /\ UNCHANGED <<mg_vars, st_vars, sp_vars, bk_vars, ex_vars, cl_vars, ca_vars,
                   fl_vars, ag_vars, fm_vars, sv_vars>>

\* the end of delete_trunk once the trunk to delete is known: lines 190-205
delete_known(trunk_id, sip_number, sip_address, sip_username, by_number) ==
    IF trunk_id \notin {t.sip_trunk_id : t \in tk.livekit}
    THEN tk' = [tk EXCEPT !.op = "delete_trunk", !.calls = @ + 1,
                          !.ret = TrunkRet("delete_trunk", trunk_id, FALSE, FALSE)]
    ELSE tk' = [tk EXCEPT
            !.op = "delete_trunk", !.calls = @ + 1,
            !.livekit = {t \in @ : t.sip_trunk_id # trunk_id},
            !.cache = IF invalidates(sip_number, sip_address, sip_username)
                      THEN invalidate_trunk_outbound(@, tk.up,
                               outbound_trunk_key(sip_number, sip_address, sip_username))
                      ELSE @,
            !.deleted = @ \cup {trunk_id},
            !.clean = @ /\ by_number /\ tk.up,
            !.ret = TrunkRet("delete_trunk", trunk_id, TRUE, FALSE)]

\* Trunk.delete_trunk; LiveKit answers or raises
delete_trunk(trunk_id, sip_number, sip_address, sip_username, answered) ==
    LET found == {t \in tk.livekit : t.number = sip_number} IN
    /\ tk.op # "off"
    /\ tk.calls < MaxTrunkCalls
    /\ IF trunk_id = NoArg /\ sip_number = NoArg
       THEN tk' = [tk EXCEPT !.op = "delete_trunk", !.calls = @ + 1,
                             !.ret = TrunkRet("delete_trunk", NoTrunk, FALSE, FALSE)]
       ELSE IF ~answered
       THEN tk' = [tk EXCEPT !.op = "delete_trunk", !.calls = @ + 1,
                             !.ret = TrunkRet("delete_trunk", trunk_id, FALSE, FALSE)]
       ELSE IF trunk_id # NoArg
       THEN delete_known(trunk_id, sip_number, sip_address, sip_username, FALSE)
       ELSE IF found = {}
       THEN tk' = [tk EXCEPT !.op = "delete_trunk", !.calls = @ + 1,
                             !.ret = TrunkRet("delete_trunk", NoTrunk, FALSE, FALSE)]
       ELSE \E t \in found :
               delete_known(t.sip_trunk_id, sip_number, t.address, t.auth_username, TRUE)
    /\ UNCHANGED <<mg_vars, st_vars, sp_vars, bk_vars, ex_vars, cl_vars, ca_vars,
                   fl_vars, ag_vars, fm_vars, sv_vars>>

TrunkNext ==
    \/ TrunkCacheFlip
    \/ \E key \in OutboundKeys : TrunkCacheExpire(key)
    \/ \E a \in SipAddresses, n \in SipNumbers, u \in SipUsernames, created \in BOOLEAN :
          create_trunk(a, n, u, created)
    \/ \E a \in SipAddresses, n \in SipNumbers, u \in SipUsernames, listed \in BOOLEAN :
          get_trunk(a, n, u, listed)
    \/ \E id \in Range(TrunkIds) \cup {NoArg}, n \in SipNumbers \cup {NoArg},
          a \in SipAddresses \cup {NoArg}, u \in SipUsernames \cup {NoArg},
          answered \in BOOLEAN :
          delete_trunk(id, n, a, u, answered)

TrunkSpec == TrunkInit /\ [][TrunkNext]_vars

\* get_trunk has just answered from the cache
AnsweredFromCache == tk.op = "get_trunk" /\ tk.ret.cached

\* C39: once delete_trunk has returned success for a trunk, get_trunk never
\* returns the id of that trunk from the cache, whichever arguments the
\* deletion was requested with.
C39_DeletedTrunkNotCached ==
    AnsweredFromCache => tk.ret.trunk_id \notin tk.deleted

\* the same for trunks deleted by sip_number alone while the cache was
\* reachable
DeletedByNumberNotCached ==
    (AnsweredFromCache /\ tk.clean) => tk.ret.trunk_id \notin tk.deleted

\* a trunk was deleted by sip_number and get_trunk has answered from the cache
DeletedByNumberSeen ==
    AnsweredFromCache /\ tk.clean /\ tk.deleted # {}

====
